---- MODULE Spec2Model ----
(***************************************************************************)
(* A model of the lispy interpreters: the MAL evaluator of the lispy       *)
(* package (lispy/env.py, lispy/mal_types.py, lispy/stepA_mal.py,          *)
(* lispy/core.py) and the Scheme evaluator of lispy.py.                    *)
(*                                                                         *)
(* Every runtime value is a record tagged by its field t, so that values   *)
(* of different classes compare unequal instead of failing to compare.     *)
(* Objects with identity (environments, functions, escape balls) live in   *)
(* heaps: sequences indexed by their identity; identity 0 is None.         *)
(***************************************************************************)
EXTENDS Integers, Sequences, FiniteSets, TLC

VARIABLES
    envs,      \* heap of lispy.env.Env objects: [outer, data, limit]
    lenvs,     \* heap of lispy.py Env objects: [outer, data]
    eres,      \* outcome of the last operation on an environment
    hobj,      \* the host object's attributes (attribute name -> host value)
    handle,    \* the MalPythonObject handle: [type, restrictions]
    dres,      \* outcome of the last `.` access
    now,       \* time.perf_counter()
    limits,    \* heap of ExecutionLimit / Limit objects: [time_limit, start_time]
    steps,     \* eval-loop iterations begun since the clock last advanced
    mfns,      \* heap of MalFunction objects: compiled [p, is_macro] or raw
               \* [ast, params, env, is_macro]
    mstack,    \* the active calls of EVAL, innermost last
    mret,      \* what the innermost call just handed to its caller
    mprog,     \* the top-level forms still to be evaluated
    mresults,  \* the outcome of every finished top-level request
    mcaught,   \* what became of the exceptions try* handled in this request:
               \* <<"body", class>> when the catch* body began to run,
               \* <<"aborted", class>> when the evaluation was aborted first,
               \* and <<"raised", class>> for the abort itself
    lprocs,    \* lispy.py: heap of Procedure objects: [parms, exp, env]
    lballs,    \* lispy.py: heap of Escape objects: [retval]
    lstack,    \* lispy.py: the active calls of eval and callcc, innermost last
    lret,      \* lispy.py: what the innermost call just handed to its caller
    lprog,     \* lispy.py: the expressions the host loads, in order
    lresults,  \* lispy.py: the outcome of every finished load
    llimit,    \* lispy.py: Lispy.limit, 0 for None
    macro_table,  \* lispy.py: Lispy.macro_table (macro name -> callable)
    pres       \* the last call of a function of the library: its arguments
               \* and what it returned or raised

envVars == <<envs, lenvs, eres>>
dotVars == <<hobj, handle, dres>>
clockVars == <<now, limits, steps>>
malVars == <<mfns, mstack, mret, mprog, mresults, mcaught>>
lispVars == <<lprocs, lballs, lstack, lret, lprog, lresults, llimit>>
libVars == <<macro_table, pres>>
vars == <<envs, lenvs, eres, hobj, handle, dres, now, limits, steps,
          mfns, mstack, mret, mprog, mresults, mcaught,
          lprocs, lballs, lstack, lret, lprog, lresults, llimit,
          macro_table, pres>>

\* What the operations of one component leave alone.
notEnv == <<dotVars, clockVars, malVars, lispVars, libVars>>
notDot == <<envVars, clockVars, malVars, lispVars, libVars>>
notMal == <<lenvs, eres, dotVars, lispVars, libVars>>
notLisp == <<envs, eres, dotVars, malVars, libVars>>
notLib == <<envVars, dotVars, clockVars, malVars, lispVars>>

(***************************************************************************)
(* Values (lispy/mal_types.py).                                            *)
(***************************************************************************)
MalNil == [t |-> "nil"]
MalInt(n) == [t |-> "int", n |-> n]
MalSymbol(s) == [t |-> "sym", s |-> s]
MalString(s) == [t |-> "str", str |-> s]
MalBoolean(b) == [t |-> "bool", b |-> b]
MalList(l) == [t |-> "list", l |-> l]

isSymbol(v) == v.t = "sym"
isList(v) == v.t = "list"

\* Python's seq[from:] on a 0-indexed list, for the 1-indexed Seq s:
\* the elements at the 0-based positions >= from.
\* (a slice that starts one element late)
SliceFromNext(s, from) == SubSeq(s, from + 2, Len(s))
SliceFrom(s, from) == SubSeq(s, from + 1, Len(s))

\* str(x) of a MalExpression is readable_str().  The strings of the model
\* hold no backslash, newline or double quote, so MalString adds the quotes
\* only; a function prints as a placeholder.
RECURSIVE readable_str(_)
RECURSIVE JoinReadable(_, _)
JoinReadable(l, i) ==
    IF i > Len(l) THEN ""
    ELSE IF i = Len(l) THEN readable_str(l[i])
    ELSE readable_str(l[i]) \o " " \o JoinReadable(l, i + 1)
readable_str(v) ==
    CASE v.t = "sym" -> v.s
      [] v.t = "int" -> ToString(v.n)
      [] v.t = "nil" -> "nil"
      [] v.t = "bool" -> (IF v.b THEN "true" ELSE "false")
      [] v.t = "str" -> "\"" \o v.str \o "\""
      [] v.t = "list" -> "(" \o JoinReadable(v.l, 1) \o ")"
      [] v.t = "kw" -> ":" \o v.s
      \* repr(repr(native)) of a host object: its class and address
      [] v.t = "pyobj" -> "'<object>'"
      [] OTHER -> "#<function>"

(***************************************************************************)
(* Python dicts with str keys: functions whose domain is the set of keys.  *)
(***************************************************************************)
EmptyDict == [k \in {} |-> MalNil]
DictSet(d, k, v) == [x \in (DOMAIN d) \cup {k} |-> IF x = k THEN v ELSE d[x]]

(***************************************************************************)
(* lispy/env.py: class Env.                                                *)
(***************************************************************************)
\* The binding loop of Env.__init__, from index x (0-based) on.  It ends
\* with the bindings made, with MalInvalidArgumentException, or with the
\* IndexError that Python raises for binds[x + 1] and exprs[x] out of range.
RECURSIVE EnvBind(_, _, _, _)
EnvBind(binds, exprs, x, data) ==
    IF x >= Len(binds) THEN [st |-> "ok", data |-> data, arg |-> MalNil]
    ELSE IF ~isSymbol(binds[x + 1])
    THEN [st |-> "InvalidArgument", data |-> data, arg |-> binds[x + 1]]
    ELSE IF binds[x + 1].s = "&" THEN
        IF x + 1 >= Len(binds) THEN [st |-> "IndexError", data |-> data, arg |-> MalNil]
        ELSE [st |-> "ok", arg |-> MalNil,
              data |-> DictSet(data, readable_str(binds[x + 2]),
                               MalList(SliceFrom(exprs, x)))]
    ELSE IF x >= Len(exprs) THEN [st |-> "IndexError", data |-> data, arg |-> MalNil]
    ELSE EnvBind(binds, exprs, x + 1, DictSet(data, binds[x + 1].s, exprs[x + 1]))

\* (a variant of __init__ that prefers the limit it is handed)
EnvInitOwnLimit(h, outer, hasBinds, binds, exprs, execution_limit) ==
    LET b == IF hasBinds THEN EnvBind(binds, exprs, 0, EmptyDict)
             ELSE [st |-> "ok", data |-> EmptyDict, arg |-> MalNil]
        frame == [outer |-> outer,
                  data |-> b.data,
                  limit |-> IF execution_limit # 0 \/ outer = 0 THEN execution_limit
                            ELSE h[outer].limit]
    IN  IF b.st = "ok"
        THEN [st |-> "ok", heap |-> Append(h, frame), id |-> Len(h) + 1, arg |-> b.arg]
        ELSE [st |-> b.st, heap |-> h, id |-> 0, arg |-> b.arg]

\* Env(outer, binds, exprs, execution_limit) on heap h: the outcome, the
\* heap with the new frame appended when construction succeeds, and its
\* identity.  hasBinds is "binds is not None and exprs is not None".
EnvInit(h, outer, hasBinds, binds, exprs, execution_limit) ==
    LET b == IF hasBinds THEN EnvBind(binds, exprs, 0, EmptyDict)
             ELSE [st |-> "ok", data |-> EmptyDict, arg |-> MalNil]
        frame == [outer |-> outer,
                  data |-> b.data,
                  limit |-> IF outer # 0 THEN h[outer].limit ELSE execution_limit]
    IN  IF b.st = "ok"
        THEN [st |-> "ok", heap |-> Append(h, frame), id |-> Len(h) + 1, arg |-> b.arg]
        ELSE [st |-> b.st, heap |-> h, id |-> 0, arg |-> b.arg]

\* (a variant of find that asks the outer frame first)
RECURSIVE EnvFindOuterFirst(_, _, _)
EnvFindOuterFirst(h, e, key) ==
    LET up == IF h[e].outer # 0 THEN EnvFindOuterFirst(h, h[e].outer, key) ELSE 0
    IN  IF up # 0 THEN up
        ELSE IF key \in DOMAIN h[e].data THEN e
        ELSE 0

\* Env.find: the frame itself, else the outer frame's answer, else None (0).
RECURSIVE EnvFind(_, _, _)
EnvFind(h, e, key) ==
    IF key \in DOMAIN h[e].data THEN e
    ELSE IF h[e].outer # 0 THEN EnvFind(h, h[e].outer, key)
    ELSE 0

\* set on the outermost frame of the chain that binds the key, if any
RECURSIVE EnvSetWhereBound(_, _, _, _)
EnvSetWhereBound(h, e, key, value) ==
    IF h[e].outer # 0 /\ EnvFind(h, h[e].outer, key) # 0
    THEN EnvSetWhereBound(h, h[e].outer, key, value)
    ELSE [h EXCEPT ![e].data = DictSet(h[e].data, key, value)]

\* Env.set
EnvSet(h, e, key, value) == [h EXCEPT ![e].data = DictSet(h[e].data, key, value)]

\* Env.get
EnvGet(h, e, key) ==
    IF key \in DOMAIN h[e].data THEN [st |-> "ok", val |-> h[e].data[key]]
    ELSE LET location == EnvFind(h, e, key)
         IN  IF location = 0
             THEN [st |-> "UnknownSymbol", func |-> key,
                   val |-> MalString("'" \o key \o "' not found")]
             ELSE [st |-> "ok", val |-> h[location].data[key]]

(***************************************************************************)
(* lispy.py: class Env(dict), on a heap of [outer, data] frames.  Parsed   *)
(* code and data are Python values: a Symbol, an int, a list, None.        *)
(***************************************************************************)
None == [t |-> "none"]
PyInt(n) == [t |-> "int", n |-> n]
Symbol(s) == [t |-> "sym", s |-> s]
PyList(l) == [t |-> "list", l |-> l]

\* dict.update(zip(parms, args)), pair by pair from position i
RECURSIVE ZipUpdate(_, _, _, _)
ZipUpdate(data, parms, args, i) ==
    IF i > Len(parms) \/ i > Len(args) THEN data
    ELSE ZipUpdate(DictSet(data, parms[i].s, args[i]), parms, args, i + 1)

\* Env(parms, args, outer): a single Symbol takes the whole argument list.
LEnvInit(h, parms, args, outer) ==
    IF parms.t = "sym"
    THEN [st |-> "ok", id |-> Len(h) + 1,
          heap |-> Append(h, [outer |-> outer,
                              data |-> DictSet(EmptyDict, parms.s, PyList(args))])]
    ELSE IF Len(args) # Len(parms.l)
    THEN [st |-> "TypeError", id |-> 0, heap |-> h]
    ELSE [st |-> "ok", id |-> Len(h) + 1,
          heap |-> Append(h, [outer |-> outer,
                              data |-> ZipUpdate(EmptyDict, parms.l, args, 1)])]

\* a find that prefers the outermost frame where var appears
RECURSIVE LEnvFindOutermost(_, _, _)
LEnvFindOutermost(h, e, var) ==
    LET up == IF h[e].outer = 0 THEN 0 ELSE LEnvFindOutermost(h, h[e].outer, var)
    IN  IF up # 0 THEN up
        ELSE IF var \in DOMAIN h[e].data THEN e
        ELSE 0

\* Env.find: the innermost frame where var appears; LookupError (0) if none.
RECURSIVE LEnvFind(_, _, _)
LEnvFind(h, e, var) ==
    IF var \in DOMAIN h[e].data THEN e
    ELSE IF h[e].outer = 0 THEN 0
    ELSE LEnvFind(h, h[e].outer, var)

(***************************************************************************)
(* Exceptions (lispy/mal_types.py) and the host errors Python raises.      *)
(* mal tells whether the class derives from MalException.                  *)
(***************************************************************************)
Running == [kind |-> "run", cls |-> "", val |-> MalNil, mal |-> FALSE]
Idle == [kind |-> "idle", cls |-> "", val |-> MalNil, mal |-> FALSE]
Val(v) == [kind |-> "val", cls |-> "", val |-> v, mal |-> FALSE]
Exc(cls, v, mal) == [kind |-> "exc", cls |-> cls, val |-> v, mal |-> mal]

MalException(value) == Exc("MalException", value, TRUE)
MalExecutionLimitError(message) == Exc("MalExecutionLimitError", MalString(message), TRUE)
MalSyntaxException(message) == Exc("MalSyntaxException", MalString(message), TRUE)
MalInvalidArgumentException(arg, reason) ==
    Exc("MalInvalidArgumentException",
        MalString(readable_str(arg) \o ": invalid argument: " \o reason), TRUE)
MalUnknownSymbolException(func) ==
    Exc("MalUnknownSymbolException", MalString("'" \o func \o "' not found"), TRUE)
MalIndexError(index) ==
    Exc("MalIndexError", MalString("Index out of bounds: " \o ToString(index)), TRUE)
HostError(cls) == Exc(cls, MalNil, FALSE)

(***************************************************************************)
(* The native bridge: MalPythonObject.dot (lispy/mal_types.py) and         *)
(* Lispy.proc_dot (lispy.py).  A restriction policy is None or a dict from *)
(* host type to attribute names: [some, map].                              *)
(***************************************************************************)
NoPolicy == [some |-> FALSE, map |-> EmptyDict]
Policy(m) == [some |-> TRUE, map |-> m]

\* Python's truth value of the policy: None and the empty dict are false.
PolicyTruthy(p) == p.some /\ DOMAIN p.map # {}

\* expression_from_native for a host value that is not callable
MalPythonObject(native, restrictions) ==
    [t |-> "pyobj", native |-> native, restrictions |-> restrictions]
MalFunctionPython(native, restrictions) ==
    [t |-> "pyfn", native |-> native, restrictions |-> restrictions]
MalFloat(x) == [t |-> "float", x |-> x]

\* Host values next to None and PyInt: bool, str, float (in tenths), list,
\* a function [parms, body], an instance of a class with its attributes
PyBool(b) == [t |-> "bool", b |-> b]
PyStr(s) == [t |-> "str", str |-> s]
PyFloat(x) == [t |-> "float", x |-> x]
HostList(l) == [t |-> "pylist", l |-> l]
HostFunction(name, parms, body) ==
    [t |-> "hostfn", name |-> name, parms |-> parms, body |-> body]
HostObject(type, attrs) == [t |-> "object", type |-> type, attrs |-> attrs]
\* callable(obj)
HostCallable(obj) == obj.t = "hostfn"
\* isinstance(obj, int): bool is a subclass of int
IsInstanceInt(obj) == obj.t \in {"int", "bool"}

\* expression_from_native(obj, restrictions)
expression_from_native(obj, restrictions) ==
    IF HostCallable(obj) THEN MalFunctionPython(obj, restrictions)
    ELSE MalPythonObject(obj, restrictions)

\* MalPythonObject.to_expression with the test for int before the one for bool
to_expression_int_first(self) ==
    LET obj == self.native
    IN  IF obj.t = "str" THEN MalString(obj.str)
        ELSE IF IsInstanceInt(obj) THEN MalInt(IF obj.t = "bool" THEN (IF obj.b THEN 1 ELSE 0)
                                               ELSE obj.n)
        ELSE IF obj.t = "bool" THEN MalBoolean(obj.b)
        ELSE IF obj.t = "float" THEN MalFloat(obj.x)
        ELSE IF obj.t = "none" THEN MalNil
        ELSE IF obj.t = "pylist"
        THEN MalList([i \in 1..Len(obj.l) |->
                         expression_from_native(obj.l[i], self.restrictions)])
        ELSE self

\* MalPythonObject.to_expression
to_expression(self) ==
    LET obj == self.native
    IN  IF obj.t = "str" THEN MalString(obj.str)
        ELSE IF obj.t = "bool" THEN MalBoolean(obj.b)
        ELSE IF obj.t = "float" THEN MalFloat(obj.x)
        ELSE IF IsInstanceInt(obj) THEN MalInt(obj.n)
        ELSE IF obj.t = "none" THEN MalNil
        ELSE IF obj.t = "pylist"
        THEN MalList([i \in 1..Len(obj.l) |->
                         expression_from_native(obj.l[i], self.restrictions)])
        ELSE self

\* expression_to_native for a scalar: expr.native()
expression_to_native(expr) ==
    CASE expr.t = "int" -> PyInt(expr.n)
      [] expr.t = "nil" -> None
      [] OTHER -> expr

\* getattr(obj, attr, None)
GetAttr(obj, attr) == IF attr \in DOMAIN obj THEN obj[attr] ELSE None

\* A host exception e = [cls, msg]; repr(e)
HostException(cls, msg) == [cls |-> cls, msg |-> msg]
Repr(e) == e.cls \o "('" \o e.msg \o "')"
\* what a piece of host code does when run: it returns a value or raises
HostReturn(v) == [raises |-> FALSE, exc |-> HostException("", ""), val |-> v]
HostRaise(cls, msg) == [raises |-> TRUE, exc |-> HostException(cls, msg), val |-> None]
\* a property of the host class without a setter, and its getter
HostProperty(fget) == [t |-> "property", fget |-> fget]

\* the handler letting the host exception through as it is
RaisedFromPythonUnwrapped(e) == HostError(e.cls)
\* raise MalException(MalString(f"'{repr(e)}' raised from python")) from e
RaisedFromPython(e) == MalException(MalString("'" \o Repr(e) \o "' raised from python"))

\* getattr(obj, attr, None): AttributeError gives the default
GetAttrHost(obj, attr) ==
    IF attr \notin DOMAIN obj \/ obj[attr].t # "property"
    THEN HostReturn(GetAttr(obj, attr))
    ELSE IF obj[attr].fget.raises /\ obj[attr].fget.exc.cls = "AttributeError"
    THEN HostReturn(None)
    ELSE obj[attr].fget

\* setattr(obj, attr, value): the object afterwards, or the exception raised
SetAttrHost(obj, attr, value) ==
    IF attr \in DOMAIN obj /\ obj[attr].t = "property"
    THEN HostRaise("AttributeError", "can't set attribute")
    ELSE HostReturn(DictSet(obj, attr, value))

\* MalPythonObject.dot(attr, value) on host object obj of type ty; hasValue
\* is "value is not None".  The outcome and the host object afterwards.
MalDot(h, obj, attr, hasValue, value) ==
    LET attrs == IF h.type \in DOMAIN h.restrictions.map
                 THEN h.restrictions.map[h.type] ELSE {}
    IN  IF PolicyTruthy(h.restrictions) /\ (attrs = {} \/ attr \notin attrs)
        THEN [st |-> "InvalidArgument", val |-> MalNil, obj |-> obj]
        ELSE IF hasValue
        THEN LET w == SetAttrHost(obj, attr, expression_to_native(value))
             IN  IF w.raises
                 THEN [st |-> RaisedFromPython(w.exc).cls,
                       val |-> RaisedFromPython(w.exc).val, obj |-> obj]
                 ELSE [st |-> "ok", val |-> MalNil, obj |-> w.val]
        ELSE LET g == GetAttrHost(obj, attr)
             IN  IF g.raises
                 THEN [st |-> RaisedFromPython(g.exc).cls,
                       val |-> RaisedFromPython(g.exc).val, obj |-> obj]
                 ELSE [st |-> "ok", obj |-> obj,
                       val |-> expression_from_native(g.val, h.restrictions)]

\* Lispy.proc_dot(obj, attr, value) under the interpreter's dotaccess dict;
\* a missing attribute makes getattr raise AttributeError.
ProcDot(dotaccess, ty, obj, attr, hasValue, value) ==
    IF ty \in DOMAIN dotaccess /\ attr \in dotaccess[ty]
    THEN IF hasValue
         THEN [st |-> "ok", val |-> None, obj |-> DictSet(obj, attr, value)]
         ELSE IF attr \in DOMAIN obj
         THEN [st |-> "ok", val |-> obj[attr], obj |-> obj]
         ELSE [st |-> "AttributeError", val |-> None, obj |-> obj]
    ELSE [st |-> "TypeError", val |-> None, obj |-> obj]

(***************************************************************************)
(* lispy/env.py: class ExecutionLimit, on the heap `limits`.               *)
(***************************************************************************)
\* ExecutionLimit.check comparing for equality instead of >=
ExecutionLimitExceededAtDeadlineOnly(lim, t) == (t - lim.start_time) = lim.time_limit

\* ExecutionLimit.check: does the deadline lie behind clock reading t?
ExecutionLimitExceeded(lim, t) == (t - lim.start_time) >= lim.time_limit

\* ExecutionLimit.reset
ExecutionLimitReset(lim, t) == [lim EXCEPT !.start_time = t]

\* Env.check_execution_limit: TRUE when check() raises
EnvCheckExecutionLimit(h, ls, e, t) ==
    h[e].limit # 0 /\ ExecutionLimitExceeded(ls[h[e].limit], t)

\* (a reset that leaves the instance as it is)
EnvResetExecutionLimitNever(h, ls, e, t) == ls

\* Env.reset_execution_limit
EnvResetExecutionLimit(h, ls, e, t) ==
    IF h[e].limit # 0
    THEN [ls EXCEPT ![h[e].limit] = ExecutionLimitReset(ls[h[e].limit], t)]
    ELSE ls

(***************************************************************************)
(* lispy/mal_types.py: MalFunctionPython.call.                             *)
(***************************************************************************)
\* the loop of MalFunctionPython.call over mal_args from position i on
\* (1-based): positional and keyword arguments, or the argument refused
RECURSIVE CallArguments(_, _, _, _)
CallArguments(mal_args, i, args, kwargs) ==
    IF i > Len(mal_args) THEN [st |-> "ok", arg |-> MalNil, args |-> args, kwargs |-> kwargs]
    ELSE LET a == mal_args[i]
         IN  IF a.t = "kw"
             THEN IF i + 1 > Len(mal_args)
                  THEN [st |-> "expected value following keyword", arg |-> a,
                        args |-> args, kwargs |-> kwargs]
                  ELSE IF a.s \in DOMAIN kwargs
                  THEN [st |-> "duplicate keyword", arg |-> a,
                        args |-> args, kwargs |-> kwargs]
                  ELSE CallArguments(mal_args, i + 2, args,
                                     DictSet(kwargs, a.s, expression_to_native(mal_args[i + 1])))
             ELSE CallArguments(mal_args, i + 1,
                                Append(args, expression_to_native(a)), kwargs)

\* self._python_native(*args, **kwargs) for a host function f = [parms, body]
\* without defaults: Python binds the arguments or raises TypeError, then
\* the body runs
HostCall(f, args, kwargs) ==
    LET given == {f.parms[i] : i \in 1..Len(args)} \cup DOMAIN kwargs
    IN  IF Len(args) > Len(f.parms)
        THEN HostRaise("TypeError", "too many positional arguments")
        ELSE IF \E k \in DOMAIN kwargs : \A i \in 1..Len(f.parms) : f.parms[i] # k
        THEN HostRaise("TypeError", "unexpected keyword argument")
        ELSE IF \E k \in DOMAIN kwargs : \E i \in 1..Len(args) : f.parms[i] = k
        THEN HostRaise("TypeError", "multiple values for argument")
        ELSE IF \E i \in 1..Len(f.parms) : f.parms[i] \notin given
        THEN HostRaise("TypeError", "missing required argument")
        ELSE f.body

\* MalFunctionPython.call(mal_args) for the host function f
MalFunctionPythonCall(f, restrictions, mal_args) ==
    LET c == CallArguments(mal_args, 1, <<>>, EmptyDict)
        r == HostCall(f, c.args, c.kwargs)
    IN  IF c.st # "ok" THEN MalInvalidArgumentException(c.arg, c.st)
        ELSE IF r.raises THEN RaisedFromPython(r.exc)
        ELSE Val(expression_from_native(r.val, restrictions))

(***************************************************************************)
(* lispy/mal_types.py: a == b, the __eq__ of the class of a.               *)
(***************************************************************************)
\* the same, with MalVector left to MalExpression.__eq__
RECURSIVE MalEqSameClass(_, _)
MalEqSameClass(a, b) ==
    CASE a.t = "list" ->
            /\ b.t \in {"list", "vec"}
            /\ Len(a.l) = Len(b.l)
            /\ \A i \in 1..Len(a.l) : MalEqSameClass(a.l[i], b.l[i])
      [] a.t = "vec" ->
            /\ b.t = "vec"
            /\ Len(a.l) = Len(b.l)
            /\ \A i \in 1..Len(a.l) : MalEqSameClass(a.l[i], b.l[i])
      [] OTHER -> b.t = a.t /\ a = b

RECURSIVE MalEq(_, _)
MalEq(a, b) ==
    \* MalList.__eq__, MalVector.__eq__: isinstance(other, (MalList, MalVector))
    \* and self.native() == other.native(), two Python lists
    CASE a.t \in {"list", "vec"} ->
            /\ b.t \in {"list", "vec"}
            /\ Len(a.l) = Len(b.l)
            /\ \A i \in 1..Len(a.l) : MalEq(a.l[i], b.l[i])
    \* MalExpression.__eq__: isinstance(other, self.__class__) and the
    \* native values equal
      [] OTHER -> b.t = a.t /\ a = b

(***************************************************************************)
(* lispy/core.py: the compiled functions of ns that the programs use.      *)
(***************************************************************************)
CoreNames == <<"+", "-", "=", "list", "throw", "cons", "concat", "nth">>

MalFunction(id) == [t |-> "fn", id |-> id]
isFunction(v) == v.t = "fn"

RECURSIVE ConcatAll(_, _)
ConcatAll(args, i) ==
    IF i > Len(args) THEN <<>> ELSE args[i].l \o ConcatAll(args, i + 1)

\* ns[p].call(args): the value returned or the exception raised
CoreCall(p, args) ==
    CASE p \in {"+", "-"} ->
            IF Len(args) # 2 THEN MalSyntaxException("not enough arguments")
            ELSE IF args[1].t = "int" /\ args[2].t = "int"
            THEN Val(MalInt(IF p = "+" THEN args[1].n + args[2].n
                                        ELSE args[1].n - args[2].n))
            ELSE HostError("TypeError")
      [] p = "=" ->
            IF Len(args) # 2 THEN MalSyntaxException("not enough arguments")
            ELSE Val(MalBoolean(MalEq(args[1], args[2])))
      [] p = "list" -> Val(MalList(args))
      [] p = "throw" ->
            IF Len(args) # 1 THEN MalSyntaxException("not enough arguments")
            ELSE MalException(args[1])
      [] p = "cons" ->
            IF Len(args) # 2 THEN MalSyntaxException("not enough arguments")
            ELSE IF args[2].t # "list"
            THEN MalInvalidArgumentException(args[2], "not a list or vector")
            ELSE Val(MalList(<<args[1]>> \o args[2].l))
      [] p = "concat" ->
            IF \E i \in 1..Len(args) : args[i].t # "list"
            THEN MalInvalidArgumentException(
                    args[CHOOSE i \in 1..Len(args) :
                            /\ args[i].t # "list"
                            /\ \A j \in 1..(i - 1) : args[j].t = "list"],
                    "not a list or vector")
            ELSE Val(MalList(ConcatAll(args, 1)))
      [] p = "nth" ->
            IF Len(args) # 2 THEN MalSyntaxException("not enough arguments")
            ELSE IF args[1].t # "list"
            THEN MalInvalidArgumentException(args[1], "not a list or vector")
            ELSE IF args[2].t # "int"
            THEN MalInvalidArgumentException(args[2], "not an int")
            ELSE IF args[2].n > Len(args[1].l) - 1 THEN MalIndexError(args[2].n)
            \* list_native[index]: Python counts a negative index from the end
            ELSE IF args[2].n >= 0 THEN Val(args[1].l[args[2].n + 1])
            ELSE IF -args[2].n <= Len(args[1].l)
            THEN Val(args[1].l[Len(args[1].l) + args[2].n + 1])
            ELSE HostError("IndexError")
      [] OTHER -> HostError("KeyError")

(***************************************************************************)
(* lispy/stepA_mal.py: quasiquote, is_macro_call, macroexpand, EVAL.       *)
(*                                                                         *)
(* A state of the evaluator is [stack, envs, fns, ret, caught].  Each call *)
(* of EVAL is a frame [ast, env, pc, i, acc, aux, catching]; pc tells      *)
(* where the call stands: at the top of its loop ("loop"), in macroexpand  *)
(* waiting for the macro's body ("macro"; mx tells that the macroexpand    *)
(* special form asked), or waiting for the nested EVAL of a special form   *)
(* ("def", "defmacro", "let", "do", "if", "try", "app").                   *)
(***************************************************************************)
is_pair(x) == x.t = "list" /\ Len(x.l) > 0

\* quasiquote taking a spliced form for one more element
RECURSIVE quasiquoteConsOnly(_)
quasiquoteConsOnly(ast) ==
    IF ~is_pair(ast) THEN MalList(<<MalSymbol("quote"), ast>>)
    ELSE IF ast.l[1] = MalSymbol("unquote") THEN ast.l[2]
    ELSE IF is_pair(ast.l[1]) /\ ast.l[1].l[1] = MalSymbol("splice-unquote")
    THEN MalList(<<MalSymbol("cons"), ast.l[1].l[2],
                   quasiquoteConsOnly(MalList(Tail(ast.l)))>>)
    ELSE MalList(<<MalSymbol("cons"), quasiquoteConsOnly(ast.l[1]),
                   quasiquoteConsOnly(MalList(Tail(ast.l)))>>)

RECURSIVE quasiquote(_)
quasiquote(ast) ==
    IF ~is_pair(ast) THEN MalList(<<MalSymbol("quote"), ast>>)
    ELSE IF ast.l[1] = MalSymbol("unquote") THEN ast.l[2]
    ELSE IF is_pair(ast.l[1]) /\ ast.l[1].l[1] = MalSymbol("splice-unquote")
    THEN MalList(<<MalSymbol("concat"), ast.l[1].l[2], quasiquote(MalList(Tail(ast.l)))>>)
    ELSE MalList(<<MalSymbol("cons"), quasiquote(ast.l[1]), quasiquote(MalList(Tail(ast.l)))>>)

Frame(ast, env) ==
    [ast |-> ast, env |-> env, pc |-> "loop", i |-> 0, acc |-> <<>>, aux |-> 0,
     mx |-> FALSE, catching |-> ""]

Front(q) == SubSeq(q, 1, Len(q) - 1)
TopOf(s) == s.stack[Len(s.stack)]
WithTop(s, f) == [s EXCEPT !.stack[Len(s.stack)] = f]
\* the call EVAL(ast, env) made by the innermost call, which waits as f
Call(s, f, ast, env) ==
    [s EXCEPT !.stack = Append(Front(s.stack), f) \o <<Frame(ast, env)>>,
              !.ret = Running]
\* the innermost call returns v / raises e
ReturnFrom(s, v) == [s EXCEPT !.stack = Front(s.stack), !.ret = Val(v)]
RaiseFrom(s, e) == [s EXCEPT !.stack = Front(s.stack), !.ret = e]
\* return EVAL(ast, env) instead of `continue`
ContinueNested(s, f, ast, env) ==
    Call(s, [f EXCEPT !.pc = "try", !.ast = MalList(<<MalSymbol("try*"), ast>>)], ast, env)

\* `continue` with a new form (and environment)
Continue(s, f, ast, env) ==
    [WithTop(s, [f EXCEPT !.ast = ast, !.env = env, !.pc = "loop", !.i = 0,
                          !.acc = <<>>, !.aux = 0]) EXCEPT !.ret = Running]

\* what Env(...) raised, as an exception
BindError(r) ==
    IF r.st = "InvalidArgument" THEN MalInvalidArgumentException(r.arg, "not a symbol")
    ELSE HostError(r.st)

\* ast.native()[0].native() as the key env.get looks up (str(key)); a
\* list or a function as head gives a text no name is bound to
HeadKey(v) ==
    CASE v.t = "sym" -> [ok |-> TRUE, key |-> v.s]
      [] v.t = "str" -> [ok |-> TRUE, key |-> v.str]
      [] v.t = "int" -> [ok |-> TRUE, key |-> ToString(v.n)]
      [] v.t = "nil" -> [ok |-> TRUE, key |-> "None"]
      [] v.t = "bool" -> [ok |-> TRUE, key |-> IF v.b THEN "True" ELSE "False"]
      [] OTHER -> [ok |-> FALSE, key |-> ""]

\* a make_macro that flags a copy of the function and leaves the object
MakeMacroOfCopy(fns, id) ==
    [fns |-> Append(fns, [fns[id] EXCEPT !.is_macro = TRUE]), id |-> Len(fns) + 1]

\* value.make_macro(): the flag is set on the object the value refers to
make_macro(fns, id) == [fns |-> [fns EXCEPT ![id].is_macro = TRUE], id |-> id]

\* is_macro_call: the head names, through env.get, a function flagged macro
is_macro_call(s, ast, env) ==
    /\ ast.t = "list" /\ Len(ast.l) > 0
    /\ HeadKey(ast.l[1]).ok
    /\ LET x == EnvGet(s.envs, env, HeadKey(ast.l[1]).key)
       IN  x.st = "ok" /\ isFunction(x.val) /\ s.fns[x.val.id].is_macro

\* macroexpand on the form of the innermost call: the state in which the
\* macro's body is being evaluated, or the exception is raised, or the
\* expansion is done (pc "expanded")
RECURSIVE macroexpand(_)
macroexpand(s) ==
    LET f == TopOf(s)
    IN  IF ~is_macro_call(s, f.ast, f.env)
        THEN WithTop(s, [f EXCEPT !.pc = "expanded"])
        ELSE LET fo == s.fns[EnvGet(s.envs, f.env, HeadKey(f.ast.l[1]).key).val.id]
                 args == Tail(f.ast.l)
             IN  IF fo.kind = "raw"
                 THEN LET r == EnvInit(s.envs, fo.env, TRUE, fo.params.l, args, 0)
                      IN  IF r.st = "ok"
                          THEN Call([s EXCEPT !.envs = r.heap], [f EXCEPT !.pc = "macro"],
                                    fo.ast, r.id)
                          ELSE RaiseFrom(s, BindError(r))
                 ELSE LET c == CoreCall(fo.p, args)
                      IN  IF c.kind = "val"
                          THEN macroexpand(WithTop(s, [f EXCEPT !.ast = c.val]))
                          ELSE RaiseFrom(s, c)

Expanded(m, depth) == Len(m.stack) = depth /\ TopOf(m).pc = "expanded"

\* let*: the bindings from index i (0-based) on, then the body in tail position
LetNext(s, f, i) ==
    LET bindings_list == f.ast.l[2].l
    IN  IF i >= Len(bindings_list)
        THEN Continue(s, f, f.ast.l[3], f.aux)
        ELSE IF ~isSymbol(bindings_list[i + 1])
        THEN RaiseFrom(s, MalInvalidArgumentException(bindings_list[i + 1], "not a symbol"))
        ELSE Call(s, [f EXCEPT !.pc = "let", !.i = i], bindings_list[i + 2], f.aux)

\* do: the forms from index x on for effect, the last one in tail position
DoNext(s, f, x) ==
    IF x < Len(f.ast.l) - 1
    THEN Call(s, [f EXCEPT !.pc = "do", !.i = x], f.ast.l[x + 1], f.env)
    ELSE Continue(s, f, f.ast.l[Len(f.ast.l)], f.env)

\* application: f.call(args), or the closure's body in tail position
Apply(s, f, evaled) ==
    LET fv == evaled[1]
        args == Tail(evaled)
    IN  IF ~isFunction(fv)
        THEN RaiseFrom(s, MalInvalidArgumentException(fv, "not a function"))
        ELSE LET fo == s.fns[fv.id]
             IN  IF fo.kind = "raw"
                 THEN LET r == EnvInit(s.envs, fo.env, TRUE, fo.params.l, args, 0)
                      IN  IF r.st = "ok"
                          THEN Continue([s EXCEPT !.envs = r.heap], f, fo.ast, r.id)
                          ELSE RaiseFrom(s, BindError(r))
                 ELSE LET c == CoreCall(fo.p, args)
                      IN  IF c.kind = "val" THEN ReturnFrom(s, c.val)
                          ELSE RaiseFrom(s, c)

\* eval_ast of a list: the elements from index i on, left to right
AppNext(s, f, i, acc) ==
    IF i < Len(f.ast.l)
    THEN Call(s, [f EXCEPT !.pc = "app", !.i = i, !.acc = acc], f.ast.l[i + 1], f.env)
    ELSE Apply(s, f, acc)

\* The body of EVAL's loop after macroexpand.
Dispatch(s) ==
    LET f == TopOf(s)
        ast == f.ast
        env == f.env
        first_str == readable_str(ast.l[1])
    IN  IF ast.t # "list"
        THEN IF ast.t = "sym"
             THEN LET r == EnvGet(s.envs, env, ast.s)
                  IN  IF r.st = "ok" THEN ReturnFrom(s, r.val)
                      ELSE RaiseFrom(s, MalUnknownSymbolException(ast.s))
             ELSE ReturnFrom(s, ast)
        ELSE IF Len(ast.l) = 0 THEN ReturnFrom(s, ast)
        ELSE CASE first_str = "macroexpand" ->
                    LET m == macroexpand(WithTop(s, [f EXCEPT !.ast = ast.l[2], !.mx = TRUE]))
                    IN  IF Expanded(m, Len(s.stack)) THEN ReturnFrom(m, TopOf(m).ast)
                        ELSE m
               [] first_str \in {"def!", "defmacro!"} ->
                    Call(s, [f EXCEPT !.pc = IF first_str = "def!" THEN "def"
                                             ELSE "defmacro"], ast.l[3], env)
               [] first_str = "let*" ->
                    IF Len(ast.l) # 3
                    THEN RaiseFrom(s, MalSyntaxException("let* must be length 3"))
                    ELSE LET r == EnvInit(s.envs, env, FALSE, <<>>, <<>>, 0)
                             s1 == [s EXCEPT !.envs = r.heap]
                         IN  IF ast.l[2].t # "list"
                             THEN RaiseFrom(s1, MalInvalidArgumentException(
                                                    ast.l[2], "not a list or vector"))
                             ELSE IF Len(ast.l[2].l) % 2 # 0
                             THEN RaiseFrom(s1, MalInvalidArgumentException(
                                                    ast.l[2], "must be an even length"))
                             ELSE LetNext(s1, [f EXCEPT !.aux = r.id], 0)
               [] first_str = "do" -> DoNext(s, f, 1)
               [] first_str = "if" -> Call(s, [f EXCEPT !.pc = "if"], ast.l[2], env)
               [] first_str = "fn*" ->
                    ReturnFrom([s EXCEPT !.fns = Append(s.fns,
                                    [kind |-> "raw", ast |-> ast.l[3], params |-> ast.l[2],
                                     env |-> env, is_macro |-> FALSE])],
                               MalFunction(Len(s.fns) + 1))
               [] first_str = "quote" -> ReturnFrom(s, ast.l[2])
               [] first_str = "quasiquote" -> Continue(s, f, quasiquote(ast.l[2]), env)
               [] first_str = "try*" -> Call(s, [f EXCEPT !.pc = "try"], ast.l[2], env)
               [] OTHER -> AppNext(s, f, 0, <<>>)

\* One iteration of EVAL's loop: macroexpand, then the body
EvalLoop(s) ==
    LET m == macroexpand(s)
    IN  IF ~Expanded(m, Len(s.stack)) THEN m
        ELSE IF TopOf(m).mx THEN ReturnFrom(m, TopOf(m).ast)
        ELSE Dispatch(m)

\* The nested EVAL returned v to the innermost call, which goes on from its pc.
Resume(s0, v) ==
    LET s == [s0 EXCEPT !.ret = Running]
        f == TopOf(s)
        ast == f.ast
    IN  CASE f.pc = "def" ->
                ReturnFrom([s EXCEPT !.envs = EnvSet(s.envs, f.env, readable_str(ast.l[2]), v)], v)
          [] f.pc = "defmacro" ->
                IF ~isFunction(v)
                THEN RaiseFrom(s, MalInvalidArgumentException(v, "not a function"))
                ELSE LET made == make_macro(s.fns, v.id)
                     IN  ReturnFrom([s EXCEPT
                            !.fns = made.fns,
                            !.envs = EnvSet(s.envs, f.env, readable_str(ast.l[2]),
                                            MalFunction(made.id))],
                            MalFunction(made.id))
          [] f.pc = "let" ->
                LetNext([s EXCEPT !.envs = EnvSet(s.envs, f.aux,
                                                  readable_str(ast.l[2].l[f.i + 1]), v)],
                        f, f.i + 2)
          [] f.pc = "do" -> DoNext(s, f, f.i + 1)
          [] f.pc = "if" ->
                IF v.t = "nil" \/ (v.t = "bool" /\ v.b = FALSE)
                THEN IF Len(ast.l) >= 4 THEN Continue(s, f, ast.l[4], f.env)
                     ELSE ReturnFrom(s, MalNil)
                ELSE Continue(s, f, ast.l[3], f.env)
          [] f.pc = "try" -> ReturnFrom(s, v)
          [] f.pc = "app" -> AppNext(s, f, f.i + 1, Append(f.acc, v))
          [] f.pc = "macro" -> EvalLoop(WithTop(s, [f EXCEPT !.ast = v]))

\* the except clause of try* binding the catch symbol in the frame of the try*
UnwindNoChild(s, e) ==
    LET f == TopOf(s)
        ast == f.ast
        catch_block == ast.l[3]
    IN  IF f.pc # "try" \/ ~e.mal THEN RaiseFrom(s, e)
        ELSE IF Len(ast.l) < 3 THEN RaiseFrom(s, e)
        ELSE Continue([s EXCEPT !.envs = EnvSet(s.envs, f.env, catch_block.l[2].s, e.val)],
                      [f EXCEPT !.catching = e.cls], catch_block.l[3], f.env)

\* The nested EVAL raised e into the innermost call: the except clause of
\* try* takes every MalException; every other call lets it pass.
Unwind(s, e) ==
    LET f == TopOf(s)
        ast == f.ast
        catch_block == ast.l[3]
    IN  IF f.pc # "try" \/ ~e.mal THEN RaiseFrom(s, e)
        ELSE IF Len(ast.l) < 3 THEN RaiseFrom(s, e)
        ELSE IF catch_block.t # "list"
        THEN RaiseFrom(s, MalInvalidArgumentException(catch_block, "not a list"))
        ELSE IF ~isSymbol(catch_block.l[1]) \/ catch_block.l[1].s # "catch*"
        THEN RaiseFrom(s, MalInvalidArgumentException(catch_block.l[1], "must be catch* symbol"))
        ELSE IF Len(catch_block.l) # 3
        THEN RaiseFrom(s, MalInvalidArgumentException(catch_block, "must be length 3"))
        ELSE IF ~isSymbol(catch_block.l[2])
        THEN RaiseFrom(s, MalInvalidArgumentException(catch_block.l[2], "not a symbol"))
        ELSE LET r == EnvInit(s.envs, f.env, FALSE, <<>>, <<>>, 0)
                 h == EnvSet(r.heap, r.id, catch_block.l[2].s, e.val)
             IN  Continue([s EXCEPT !.envs = h],
                          [f EXCEPT !.catching = e.cls], catch_block.l[3], r.id)

(***************************************************************************)
(* lispy.py: Limit, callcc, Procedure and Lispy.eval.                      *)
(*                                                                         *)
(* A state of the evaluator is [stack, envs, procs, balls, ret].  The      *)
(* stack holds the active calls of eval (kind "eval": the expression x, the *)
(* environment, and pc telling which nested eval or call it waits for) and *)
(* of callcc (kind "callcc": waiting in its try for proc(throw), with the  *)
(* identity of its ball).                                                  *)
(***************************************************************************)
Procedure(id) == [t |-> "proc", id |-> id]
Primitive(name) == [t |-> "prim", name |-> name]
\* the closure `throw` that callcc makes around its ball
ThrowOf(ball) == [t |-> "throw", ball |-> ball]

LIdle == [kind |-> "idle", cls |-> "", val |-> None, ball |-> 0]
LRunning == [kind |-> "run", cls |-> "", val |-> None, ball |-> 0]
LVal(v) == [kind |-> "val", cls |-> "", val |-> v, ball |-> 0]
LExc(cls) == [kind |-> "exc", cls |-> cls, val |-> None, ball |-> 0]
\* `raise ball`: the exception is the Escape object itself
Escape(ball) == [kind |-> "exc", cls |-> "Escape", val |-> None, ball |-> ball]

\* Limit.check comparing the wrong way round
LimitExceededNever(lim, t) == (lim.start_time - t) >= lim.time_limit

\* Limit.check: does it raise LimitError at clock reading t?
LimitExceeded(lim, t) == (t - lim.start_time) >= lim.time_limit

\* Python's truth value of the result of a test
Truthy(v) ==
    CASE v.t = "none" -> FALSE
      [] v.t = "bool" -> v.b
      [] v.t = "int" -> v.n # 0
      [] v.t = "list" -> Len(v.l) > 0
      [] v.t = "str" -> v.str # ""
      [] OTHER -> TRUE

\* The entries of global_env that the programs use (add_globals).
GlobalNames ==
    {"+", "*", "=", "list", "call/cc", "not", "length", "cons", "car", "cdr", "append",
     "null?"}

\* op.add, op.mul, op.eq, list, op.not_, len, cons, car, cdr, null?: the
\* value returned or the exception raised; the arguments are lists,
\* integers, booleans and None
PrimCall(name, args) ==
    CASE name \in {"+", "*"} ->
            IF Len(args) # 2 THEN LExc("TypeError")
            ELSE IF args[1].t = "int" /\ args[2].t = "int"
            THEN LVal(PyInt(IF name = "+" THEN args[1].n + args[2].n
                                          ELSE args[1].n * args[2].n))
            ELSE LExc("TypeError")
      [] name = "=" ->
            IF Len(args) # 2 THEN LExc("TypeError")
            ELSE LVal(PyBool(args[1] = args[2]))
      [] name = "list" -> LVal(PyList(args))
      [] name = "append" ->
            IF Len(args) # 2 THEN LExc("TypeError")
            ELSE IF args[1].t = "list" /\ args[2].t = "list"
            THEN LVal(PyList(args[1].l \o args[2].l))
            ELSE IF args[1].t = "int" /\ args[2].t = "int"
            THEN LVal(PyInt(args[1].n + args[2].n))
            ELSE LExc("TypeError")
      [] name = "cons" ->
            IF Len(args) # 2 \/ args[2].t # "list" THEN LExc("TypeError")
            ELSE LVal(PyList(<<args[1]>> \o args[2].l))
      [] name = "car" ->
            IF Len(args) # 1 \/ args[1].t # "list" THEN LExc("TypeError")
            ELSE IF Len(args[1].l) = 0 THEN LExc("IndexError")
            ELSE LVal(args[1].l[1])
      [] name = "cdr" ->
            IF Len(args) # 1 \/ args[1].t # "list" THEN LExc("TypeError")
            ELSE IF Len(args[1].l) = 0 THEN LVal(args[1])
            ELSE LVal(PyList(Tail(args[1].l)))
      [] name = "length" ->
            IF Len(args) # 1 \/ args[1].t # "list" THEN LExc("TypeError")
            ELSE LVal(PyInt(Len(args[1].l)))
      [] name = "null?" ->
            IF Len(args) # 1 THEN LExc("TypeError")
            ELSE LVal(PyBool(args[1] = PyList(<<>>)))
      [] name = "not" ->
            IF Len(args) # 1 THEN LExc("TypeError")
            ELSE LVal(PyBool(~Truthy(args[1])))
      [] OTHER -> LExc("TypeError")

LFrame(x, env) ==
    [kind |-> "eval", x |-> x, env |-> env, pc |-> "loop", i |-> 0, acc |-> <<>>,
     ball |-> 0]
CallccFrame(ball) ==
    [kind |-> "callcc", x |-> None, env |-> 0, pc |-> "try", i |-> 0, acc |-> <<>>,
     ball |-> ball]

\* self.eval(x, env) called by the innermost call, which waits as f
LCall(s, f, x, env) ==
    [s EXCEPT !.stack = Append(Front(s.stack), f) \o <<LFrame(x, env)>>, !.ret = LRunning]
LReturn(s, v) == [s EXCEPT !.stack = Front(s.stack), !.ret = LVal(v)]
LRaise(s, e) == [s EXCEPT !.stack = Front(s.stack), !.ret = e]
\* the next turn of the while loop with a new x (and env)
LContinue(s, f, x, env) ==
    [s EXCEPT !.stack[Len(s.stack)] =
                  [f EXCEPT !.x = x, !.env = env, !.pc = "loop", !.i = 0, !.acc = <<>>],
              !.ret = LRunning]

\* throw(retval) returning None instead of raising the ball
throwReturns(s, ball, retval) ==
    [s EXCEPT !.balls[ball].retval = retval, !.ret = LVal(None)]

\* throw(retval): ball.retval = retval; raise ball
throw(s, ball, retval) ==
    [s EXCEPT !.balls[ball].retval = retval, !.ret = Escape(ball)]

\* proc(*args) for a callable that the innermost call calls and waits for: a
\* primitive, callcc, a throw closure, or Procedure.__call__
RECURSIVE CallCallable(_, _, _)
CallCallable(s, proc, args) ==
    CASE proc.t = "prim" /\ proc.name = "call/cc" ->
            IF Len(args) # 1 THEN [s EXCEPT !.ret = LExc("TypeError")]
            ELSE LET ball == Len(s.balls) + 1
                 IN  CallCallable([s EXCEPT !.balls = Append(s.balls, [retval |-> None]),
                                            !.stack = Append(s.stack, CallccFrame(ball))],
                                  args[1], <<ThrowOf(ball)>>)
      [] proc.t = "prim" /\ proc.name # "call/cc" ->
            [s EXCEPT !.ret = PrimCall(proc.name, args)]
      [] proc.t = "throw" ->
            IF Len(args) # 1 THEN [s EXCEPT !.ret = LExc("TypeError")]
            ELSE throw(s, proc.ball, args[1])
      [] proc.t = "proc" ->
            LET p == s.procs[proc.id]
                r == LEnvInit(s.envs, p.parms, args, p.env)
            IN  IF r.st = "ok"
                THEN [s EXCEPT !.envs = r.heap,
                               !.stack = Append(s.stack, LFrame(p.exp, r.id)),
                               !.ret = LRunning]
                ELSE [s EXCEPT !.ret = LExc(r.st)]
      [] OTHER -> [s EXCEPT !.ret = LExc("TypeError")]

\* (begin exp+): the expressions x[1:-1] from index i on, then x[-1] as new x
LBeginNext(s, f, i) ==
    IF i < Len(f.x.l) - 1
    THEN LCall(s, [f EXCEPT !.pc = "begin", !.i = i], f.x.l[i + 1], f.env)
    ELSE LContinue(s, f, f.x.l[Len(f.x.l)], f.env)

\* (proc exp*) once exps are evaluated
LApply(s, f, exps) ==
    LET proc == exps[1]
        args == Tail(exps)
    IN  IF proc.t = "proc"
        THEN LET p == s.procs[proc.id]
                 r == LEnvInit(s.envs, p.parms, args, p.env)
             IN  IF r.st = "ok"
                 THEN LContinue([s EXCEPT !.envs = r.heap], f, p.exp, r.id)
                 ELSE LRaise(s, LExc(r.st))
        ELSE CallCallable([s EXCEPT !.stack[Len(s.stack)] = [f EXCEPT !.pc = "prim"]],
                          proc, args)

\* exps = [self.eval(exp, env) for exp in x], from index i on
LAppNext(s, f, i, acc) ==
    IF i < Len(f.x.l)
    THEN LCall(s, [f EXCEPT !.pc = "app", !.i = i, !.acc = acc], f.x.l[i + 1], f.env)
    ELSE LApply(s, f, acc)

\* The body of eval's loop after the limit check.
LDispatch(s) ==
    LET f == TopOf(s)
        x == f.x
    IN  IF x.t = "sym"
        THEN LET e == LEnvFind(s.envs, f.env, x.s)
             IN  IF e = 0 THEN LRaise(s, LExc("LookupError"))
                 ELSE LReturn(s, s.envs[e].data[x.s])
        ELSE IF x.t # "list" THEN LReturn(s, x)
        ELSE IF Len(x.l) = 0 THEN LRaise(s, LExc("IndexError"))
        ELSE CASE x.l[1] = Symbol("quote") -> LReturn(s, x.l[2])
               [] x.l[1] = Symbol("if") -> LCall(s, [f EXCEPT !.pc = "if"], x.l[2], f.env)
               [] x.l[1] = Symbol("set!") -> LCall(s, [f EXCEPT !.pc = "set"], x.l[3], f.env)
               [] x.l[1] = Symbol("define") ->
                    LCall(s, [f EXCEPT !.pc = "define"], x.l[3], f.env)
               [] x.l[1] = Symbol("lambda") ->
                    LReturn([s EXCEPT !.procs = Append(s.procs,
                                [parms |-> x.l[2], exp |-> x.l[3], env |-> f.env])],
                            Procedure(Len(s.procs) + 1))
               [] x.l[1] = Symbol("begin") -> LBeginNext(s, f, 1)
               [] OTHER -> LAppNext(s, f, 0, <<>>)

\* One turn of eval's loop at clock reading t, with self.limit = lim (0: None)
LEvalIter(s, lim, ls, t) ==
    IF lim # 0 /\ LimitExceeded(ls[lim], t)
    THEN LRaise(s, LExc("LimitError"))
    ELSE LDispatch(s)

\* callcc's except clause taking every Escape
CallccCatchesAny(f, e) == e.cls = "Escape"

\* callcc's except clause taking the Escape of every ball made before its own
CallccCatchesOlder(f, e) == e.cls = "Escape" /\ e.ball <= f.ball

\* callcc's except clause: `except Escape as w: if w is ball`
CallccCatches(f, e) == e.cls = "Escape" /\ e.ball = f.ball

\* The call the innermost call waited for returned v.
LResume(s0, v) ==
    LET s == [s0 EXCEPT !.ret = LRunning]
        f == TopOf(s)
        x == f.x
    IN  CASE f.kind = "callcc" -> LReturn(s, v)
          [] f.pc = "if" -> LContinue(s, f, IF Truthy(v) THEN x.l[3] ELSE x.l[4], f.env)
          [] f.pc = "set" ->
                LET e == LEnvFind(s.envs, f.env, x.l[2].s)
                IN  IF e = 0 THEN LRaise(s, LExc("LookupError"))
                    ELSE LReturn([s EXCEPT !.envs[e].data = DictSet(@, x.l[2].s, v)], None)
          [] f.pc = "define" ->
                LReturn([s EXCEPT !.envs[f.env].data = DictSet(@, x.l[2].s, v)], None)
          [] f.pc = "begin" -> LBeginNext(s, f, f.i + 1)
          [] f.pc = "app" -> LAppNext(s, f, f.i + 1, Append(f.acc, v))
          [] f.pc = "prim" -> LReturn(s, v)

\* The call the innermost call waited for raised e: callcc returns the value
\* its own ball carries and raises every other exception again; eval has no
\* handler.
LUnwind(s, e) ==
    LET f == TopOf(s)
    IN  IF f.kind = "callcc" /\ CallccCatches(f, e)
        THEN LReturn(s, s.balls[f.ball].retval)
        ELSE LRaise(s, e)

(***************************************************************************)
(* lispy.py: Lispy.expand, Lispy.macro_let and expand_quasiquote.  A call  *)
(* of expand returns [st, val, mt]: "ok" or the class of the exception it  *)
(* raised, the value, and the macro table it leaves behind.                *)
(***************************************************************************)
MacroLet == [t |-> "builtin", name |-> "macro_let"]
\* a Procedure made by evaluating a lambda form in the global environment
MacroProcedure(parms, exp) == [t |-> "mproc", parms |-> parms, exp |-> exp]
callable(v) == v.t \in {"mproc", "prim", "builtin"}

XOk(v, mt) == [st |-> "ok", val |-> v, mt |-> mt]
XErr(cls, mt) == [st |-> cls, val |-> None, mt |-> mt]
QOk(v) == [st |-> "ok", val |-> v]
QErr(cls) == [st |-> cls, val |-> None]

\* expand_quasiquote(x)
RECURSIVE expand_quasiquote(_)
expand_quasiquote(x) ==
    IF ~is_pair(x) THEN QOk(PyList(<<Symbol("quote"), x>>))
    ELSE IF x.l[1] = Symbol("unquote-splicing") THEN QErr("SyntaxError")
    ELSE IF x.l[1] = Symbol("unquote")
    THEN IF Len(x.l) # 2 THEN QErr("SyntaxError") ELSE QOk(x.l[2])
    ELSE IF is_pair(x.l[1]) /\ x.l[1].l[1] = Symbol("unquote-splicing")
    THEN IF Len(x.l[1].l) # 2 THEN QErr("SyntaxError")
         ELSE LET r == expand_quasiquote(PyList(Tail(x.l)))
              IN  IF r.st # "ok" THEN r
                  ELSE QOk(PyList(<<Symbol("append"), x.l[1].l[2], r.val>>))
    ELSE LET h == expand_quasiquote(x.l[1])
             r == expand_quasiquote(PyList(Tail(x.l)))
         IN  IF h.st # "ok" THEN h
             ELSE IF r.st # "ok" THEN r
             ELSE QOk(PyList(<<Symbol("cons"), h.val, r.val>>))

\* Lispy.eval on the expressions a macro definition and a macro body are
\* made of here: a symbol, a constant, a quotation, a lambda form, an if, a
\* call of a primitive.  data is the frame of the call (empty at top
\* level), outside it global_env.
RECURSIVE EvalSimple(_, _)
RECURSIVE EvalSimpleArgs(_, _, _, _)
\* [self.eval(exp, env) for exp in x], from position i on
EvalSimpleArgs(xs, i, data, acc) ==
    IF i > Len(xs) THEN QOk(PyList(acc))
    ELSE LET r == EvalSimple(xs[i], data)
         IN  IF r.st # "ok" THEN r
             ELSE EvalSimpleArgs(xs, i + 1, data, Append(acc, r.val))
EvalSimple(x, data) ==
    CASE x.t = "sym" ->
            IF x.s \in DOMAIN data THEN QOk(data[x.s])
            ELSE IF x.s \in GlobalNames THEN QOk(Primitive(x.s))
            ELSE QErr("LookupError")
      [] x.t \in {"int", "none", "bool", "str"} -> QOk(x)
      [] x.t = "list" /\ x.l[1] = Symbol("quote") -> QOk(x.l[2])
      [] x.t = "list" /\ x.l[1] = Symbol("lambda") -> QOk(MacroProcedure(x.l[2], x.l[3]))
      [] x.t = "list" /\ x.l[1] = Symbol("if") ->
            LET test == EvalSimple(x.l[2], data)
            IN  IF test.st # "ok" THEN test
                ELSE EvalSimple(IF Truthy(test.val) THEN x.l[3] ELSE x.l[4], data)
      [] OTHER ->
            LET exps == EvalSimpleArgs(x.l, 1, data, <<>>)
            IN  IF exps.st # "ok" THEN exps
                ELSE IF exps.val.l[1].t # "prim" THEN QErr("TypeError")
                ELSE LET r == PrimCall(exps.val.l[1].name, Tail(exps.val.l))
                     IN  IF r.kind = "val" THEN QOk(r.val) ELSE QErr(r.cls)

\* a table that keeps the definition a name already has
MacroTableSetDefault(mt, v, proc) == IF v \in DOMAIN mt THEN mt ELSE DictSet(mt, v, proc)

\* self.macro_table[v] = proc
MacroTableSet(mt, v, proc) == DictSet(mt, v, proc)

RECURSIVE expand(_, _, _)
RECURSIVE expand_all(_, _, _, _, _)
RECURSIVE macro_let(_, _)
RECURSIVE MacroCall(_, _, _)

\* [self.expand(e, toplevel) for e in xs], from position i on
expand_all(xs, i, toplevel, mt, acc) ==
    IF i > Len(xs) THEN XOk(PyList(acc), mt)
    ELSE LET r == expand(xs[i], toplevel, mt)
         IN  IF r.st # "ok" THEN r
             ELSE expand_all(xs, i + 1, toplevel, r.mt, Append(acc, r.val))

\* Lispy.macro_let(*args)
macro_let(args, mt) ==
    IF Len(args) <= 1 THEN XErr("SyntaxError", mt)
    ELSE LET bindings == args[1]
             body == Tail(args)
         IN  CASE bindings.t \in {"int", "none", "bool"} -> XErr("TypeError", mt)
               [] bindings.t = "sym" -> XErr("SyntaxError", mt)
               [] bindings.t = "list" ->
                    IF \E i \in 1..Len(bindings.l) :
                           ~(/\ bindings.l[i].t = "list"
                             /\ Len(bindings.l[i].l) = 2
                             /\ bindings.l[i].l[1].t = "sym")
                    THEN XErr("SyntaxError", mt)
                    \* vars, vals = zip(*bindings)
                    ELSE IF Len(bindings.l) = 0 THEN XErr("ValueError", mt)
                    ELSE LET names == [i \in 1..Len(bindings.l) |-> bindings.l[i].l[1]]
                             vals == [i \in 1..Len(bindings.l) |-> bindings.l[i].l[2]]
                             eb == expand_all(body, 1, FALSE, mt, <<>>)
                             ev == expand_all(vals, 1, FALSE, eb.mt, <<>>)
                         IN  IF eb.st # "ok" THEN eb
                             ELSE IF ev.st # "ok" THEN ev
                             ELSE XOk(PyList(<<PyList(<<Symbol("lambda"), PyList(names)>>
                                                      \o eb.val.l)>>
                                             \o ev.val.l), ev.mt)

\* self.macro_table[x[0]](*x[1:])
MacroCall(m, args, mt) ==
    CASE m.t = "builtin" -> macro_let(args, mt)
      [] m.t = "prim" ->
            LET r == PrimCall(m.name, args)
            IN  IF r.kind = "val" THEN XOk(r.val, mt) ELSE XErr(r.cls, mt)
      [] m.t = "mproc" ->
            LET e == LEnvInit(<<>>, m.parms, args, 0)
            IN  IF e.st # "ok" THEN XErr(e.st, mt)
                ELSE LET r == EvalSimple(m.exp, e.heap[1].data)
                     IN  [st |-> r.st, val |-> r.val, mt |-> mt]

\* Lispy.expand(x, toplevel)
expand(x, toplevel, mt) ==
    LET head == x.l[1]
        n == Len(x.l)
    IN
    IF x = PyList(<<>>) THEN XErr("SyntaxError", mt)
    ELSE IF x.t # "list" THEN XOk(x, mt)
    ELSE IF head = Symbol("quote")
    THEN IF n # 2 THEN XErr("SyntaxError", mt) ELSE XOk(x, mt)
    ELSE IF head = Symbol("if")
    THEN LET y == IF n = 3 THEN Append(x.l, None) ELSE x.l
         IN  IF Len(y) # 4 THEN XErr("SyntaxError", mt)
             ELSE expand_all(y, 1, FALSE, mt, <<>>)
    ELSE IF head = Symbol("set!")
    THEN IF n # 3 \/ x.l[2].t # "sym" THEN XErr("SyntaxError", mt)
         ELSE LET e == expand(x.l[3], FALSE, mt)
              IN  IF e.st # "ok" THEN e
                  ELSE XOk(PyList(<<Symbol("set!"), x.l[2], e.val>>), e.mt)
    ELSE IF head \in {Symbol("define"), Symbol("define-macro")}
    THEN IF n < 3 THEN XErr("SyntaxError", mt)
         ELSE LET v == x.l[2]
                  body == SubSeq(x.l, 3, n)
              IN  IF v.t = "list" /\ Len(v.l) > 0
                  THEN expand(PyList(<<head, v.l[1],
                                       PyList(<<Symbol("lambda"), PyList(Tail(v.l))>>
                                              \o body)>>), FALSE, mt)
                  ELSE IF n # 3 \/ v.t # "sym" THEN XErr("SyntaxError", mt)
                  ELSE LET e == expand(x.l[3], FALSE, mt)
                           proc == EvalSimple(e.val, EmptyDict)
                       IN  IF e.st # "ok" THEN e
                           ELSE IF head = Symbol("define-macro")
                           THEN IF ~toplevel THEN XErr("SyntaxError", e.mt)
                                ELSE IF proc.st # "ok" THEN XErr(proc.st, e.mt)
                                ELSE IF ~callable(proc.val) THEN XErr("SyntaxError", e.mt)
                                ELSE XOk(None, MacroTableSet(e.mt, v.s, proc.val))
                           ELSE XOk(PyList(<<Symbol("define"), v, e.val>>), e.mt)
    ELSE IF head = Symbol("begin")
    THEN IF n = 1 THEN XOk(None, mt)
         ELSE expand_all(x.l, 1, toplevel, mt, <<>>)
    ELSE IF head = Symbol("lambda")
    THEN IF n < 3 THEN XErr("SyntaxError", mt)
         ELSE LET lvars == x.l[2]
                  body == SubSeq(x.l, 3, n)
                  exp == IF Len(body) = 1 THEN body[1]
                         ELSE PyList(<<Symbol("begin")>> \o body)
                  e == expand(exp, FALSE, mt)
              IN  IF ~(\/ lvars.t = "sym"
                       \/ /\ lvars.t = "list"
                          /\ \A i \in 1..Len(lvars.l) : lvars.l[i].t = "sym")
                  THEN XErr("SyntaxError", mt)
                  ELSE IF e.st # "ok" THEN e
                  ELSE XOk(PyList(<<Symbol("lambda"), lvars, e.val>>), e.mt)
    ELSE IF head = Symbol("quasiquote")
    THEN IF n # 2 THEN XErr("SyntaxError", mt)
         ELSE LET q == expand_quasiquote(x.l[2])
              IN  [st |-> q.st, val |-> q.val, mt |-> mt]
    ELSE IF head.t = "sym" /\ head.s \in DOMAIN mt
    THEN LET c == MacroCall(mt[head.s], Tail(x.l), mt)
         IN  IF c.st # "ok" THEN c ELSE expand(c.val, toplevel, c.mt)
    ELSE expand_all(x.l, 1, FALSE, mt, <<>>)

\* Lispy.__init__: the text that defines and, or, when and unless, as
\* parse reads it
BootstrapForm ==
    LET S(x) == Symbol(x)
        L(x) == PyList(x)
        QQ(x) == L(<<S("quasiquote"), x>>)
        U(x) == L(<<S("unquote"), x>>)
        US(x) == L(<<S("unquote-splicing"), x>>)
        car == L(<<S("car"), S("args")>>)
        cdr == L(<<S("cdr"), S("args")>>)
        one == L(<<S("="), L(<<S("length"), S("args")>>), PyInt(1)>>)
        macro(name, body) ==
            L(<<S("define-macro"), S(name), L(<<S("lambda"), S("args"), body>>)>>)
    IN  L(<<S("begin"),
            macro("and", L(<<S("if"), L(<<S("null?"), S("args")>>), PyBool(TRUE),
                             L(<<S("if"), one, car,
                                 QQ(L(<<S("if"), U(car), L(<<S("and"), US(cdr)>>),
                                        PyBool(FALSE)>>))>>)>>)),
            macro("or", L(<<S("if"), L(<<S("null?"), S("args")>>), PyBool(FALSE),
                            L(<<S("if"), one, car,
                                QQ(L(<<S("if"), L(<<S("not"), U(car)>>),
                                       L(<<S("or"), US(cdr)>>), PyBool(TRUE)>>))>>)>>)),
            macro("when", QQ(L(<<S("if"), U(car), L(<<S("begin"), US(cdr)>>)>>))),
            macro("unless", QQ(L(<<S("if"), L(<<S("not"), U(car)>>),
                                   L(<<S("begin"), US(cdr)>>)>>)))>>)

\* Lispy.__init__: self.macro_table = {SymbolTable._let: self.macro_let},
\* then the definitions of the text above, which parse hands to expand
InitialMacroTable ==
    expand(BootstrapForm, TRUE, DictSet(EmptyDict, "let", MacroLet)).mt

(***************************************************************************)
(* lispy/reader.py and the readable_str methods of lispy/mal_types.py on   *)
(* texts: sequences of characters (strings of length 1).  Here the names   *)
(* of symbols and keywords and the contents of strings are texts too.      *)
(*                                                                         *)
(* The grammar is a PEG (Arpeggio): an ordered choice, whitespace and      *)
(* comments skipped before every terminal, a regular expression that       *)
(* matches nothing counts as no match, and the text after the first        *)
(* expression is not looked at (the grammar has no EOF).  The forms ^,     *)
(* { } and the backquote are left out: the texts read here hold none of    *)
(* these characters.                                                       *)
(***************************************************************************)
MalKeyword(s) == [t |-> "kw", s |-> s]
MalVector(l) == [t |-> "vec", l |-> l]

DigitChars == <<"0", "1", "2", "3", "4", "5", "6", "7", "8", "9">>
Digits == {DigitChars[i] : i \in 1..10}
\* ws="\t\n\r ,"
Whitespace == {"\t", "\n", "\r", " ", ","}
\* the characters that [^\s\[\]{}('"`,;)] shuts out of symbols and keywords
\* (but for the backquote)
Delimiters == {" ", "\t", "\n", "\r", "\f", "[", "]", "{", "}", "(", "'", "\"", ",", ";", ")"}

\* the position after the longest run of characters of S (outside S) from p
RECURSIVE Span(_, _, _)
Span(text, p, S) ==
    IF p <= Len(text) /\ text[p] \in S THEN Span(text, p + 1, S) ELSE p
RECURSIVE SpanNot(_, _, _)
SpanNot(text, p, S) ==
    IF p <= Len(text) /\ text[p] \notin S THEN SpanNot(text, p + 1, S) ELSE p

\* whitespace and comments (;.*) before a terminal
RECURSIVE SkipWs(_, _)
SkipWs(text, p) ==
    IF p > Len(text) THEN p
    ELSE IF text[p] \in Whitespace THEN SkipWs(text, p + 1)
    ELSE IF text[p] = ";" THEN SkipWs(text, SpanNot(text, p, {"\n"}))
    ELSE p

\* text[p ..] begins with the characters of word
StartsWith(text, p, word) ==
    /\ p + Len(word) - 1 <= Len(text)
    /\ \A i \in 1..Len(word) : text[p + i - 1] = word[i]

\* int(node.value) for -?[0123456789]+
RECURSIVE DecimalValue(_)
DecimalValue(chars) ==
    IF chars = <<>> THEN 0
    ELSE 10 * DecimalValue(SubSeq(chars, 1, Len(chars) - 1))
         + (CHOOSE d \in 0..9 : DigitChars[d + 1] = chars[Len(chars)])
IntOf(chars) ==
    IF chars[1] = "-" THEN 0 - DecimalValue(Tail(chars)) ELSE DecimalValue(chars)

\* the end of (?:\\.|[^\\"])* from p; `.` matches no newline
RECURSIVE StringBodyEnd(_, _)
StringBodyEnd(text, p) ==
    IF p > Len(text) THEN p
    ELSE IF text[p] = "\\"
    THEN IF p + 1 <= Len(text) /\ text[p + 1] # "\n" THEN StringBodyEnd(text, p + 2) ELSE p
    ELSE IF text[p] = "\"" THEN p
    ELSE StringBodyEnd(text, p + 1)

\* the loop of visit_mString over val (quotes removed), from index i (1-based)
RECURSIVE Unescape(_, _, _)
Unescape(val, i, result) ==
    IF i > Len(val) THEN [st |-> "ok", str |-> result]
    ELSE IF val[i] = "\\"
    THEN IF i + 1 <= Len(val)
         THEN Unescape(val, i + 2,
                       CASE val[i + 1] = "n" -> Append(result, "\n")
                         [] val[i + 1] = "\\" -> Append(result, "\\")
                         [] val[i + 1] = "\"" -> Append(result, "\"")
                         [] OTHER -> result)
         ELSE [st |-> "MalSyntaxException", str |-> <<>>]
    ELSE Unescape(val, i + 1, Append(result, val[i]))

\* ReadASTVisitor.visit_mString on the matched text val
visit_mString(val) ==
    IF Len(val) < 2 \/ val[Len(val)] # "\""
    THEN [st |-> "MalSyntaxException", str |-> <<>>]
    ELSE Unescape(SubSeq(val, 2, Len(val) - 1), 1, <<>>)

ROk(v, p) == [st |-> "ok", val |-> v, pos |-> p]
\* a visitor raises MalSyntaxException
RError == [st |-> "MalSyntaxException", val |-> MalNil, pos |-> 0]
\* the parser finds no match here
RNoMatch == [st |-> "NoMatch", val |-> MalNil, pos |-> 0]

\* mExpression at position p0 of the text, and ZeroOrMore(mExpression)
\* followed by the closing bracket
RECURSIVE mExpression(_, _)
RECURSIVE mSequence(_, _, _, _)
mSequence(text, p0, acc, close) ==
    LET r == mExpression(text, p0)
        p == SkipWs(text, p0)
    IN  IF r.st = "ok" THEN mSequence(text, r.pos, Append(acc, r.val), close)
        ELSE IF r.st = "MalSyntaxException" THEN r
        ELSE IF p <= Len(text) /\ text[p] = close THEN ROk(acc, p + 1)
        ELSE RNoMatch

mExpression(text, p0) ==
    LET p == SkipWs(text, p0)
        c == text[p]
        Wrapped(name, q) ==
            LET r == mExpression(text, q)
            IN  IF r.st # "ok" THEN r
                ELSE ROk(MalList(<<MalSymbol(name), r.val>>), r.pos)
        intEnd == Span(text, IF c = "-" THEN p + 1 ELSE p, Digits)
        strEnd == LET b == StringBodyEnd(text, p + 1)
                  IN  IF b <= Len(text) /\ text[b] = "\"" THEN b + 1 ELSE b
        wordEnd == SpanNot(text, p, Delimiters)
        splice == Wrapped(<<"s", "p", "l", "i", "c", "e", "-",
                            "u", "n", "q", "u", "o", "t", "e">>, p + 2)
        unquote == Wrapped(<<"u", "n", "q", "u", "o", "t", "e">>, p + 1)
        deref == Wrapped(<<"d", "e", "r", "e", "f">>, p + 1)
    IN  IF p > Len(text) THEN RNoMatch
        \* an alternative that finds no match gives way to the next one
        ELSE IF c = "'" THEN Wrapped(<<"q", "u", "o", "t", "e">>, p + 1)
        ELSE IF StartsWith(text, p, <<"~", "@">>) /\ splice.st # "NoMatch" THEN splice
        ELSE IF c = "~" /\ unquote.st # "NoMatch" THEN unquote
        ELSE IF c = "@" /\ deref.st # "NoMatch" THEN deref
        ELSE IF c = "("
        THEN LET r == mSequence(text, p + 1, <<>>, ")")
             IN  IF r.st # "ok" THEN r ELSE ROk(MalList(r.val), r.pos)
        ELSE IF c = "["
        THEN LET r == mSequence(text, p + 1, <<>>, "]")
             IN  IF r.st # "ok" THEN r ELSE ROk(MalVector(r.val), r.pos)
        \* mInt
        ELSE IF intEnd > (IF c = "-" THEN p + 1 ELSE p)
        THEN ROk(MalInt(IntOf(SubSeq(text, p, intEnd - 1))), intEnd)
        \* mString
        ELSE IF c = "\""
        THEN LET s == visit_mString(SubSeq(text, p, strEnd - 1))
             IN  IF s.st # "ok" THEN RError ELSE ROk(MalString(s.str), strEnd)
        \* mKeyword
        ELSE IF c = ":"
        THEN IF wordEnd - p <= 1 THEN RError
             ELSE ROk(MalKeyword(SubSeq(text, p + 1, wordEnd - 1)), wordEnd)
        \* mNil, mBoolean: nil(?!\?), (true|false)(?!\?)
        ELSE IF StartsWith(text, p, <<"n", "i", "l">>) /\ ~StartsWith(text, p + 3, <<"?">>)
        THEN ROk(MalNil, p + 3)
        ELSE IF StartsWith(text, p, <<"t", "r", "u", "e">>) /\ ~StartsWith(text, p + 4, <<"?">>)
        THEN ROk(MalBoolean(TRUE), p + 4)
        ELSE IF StartsWith(text, p, <<"f", "a", "l", "s", "e">>)
                /\ ~StartsWith(text, p + 5, <<"?">>)
        THEN ROk(MalBoolean(FALSE), p + 5)
        \* mSymbol
        ELSE IF wordEnd > p THEN ROk(MalSymbol(SubSeq(text, p, wordEnd - 1)), wordEnd)
        ELSE RNoMatch

\* read(x): the value, or MalSyntaxException
read(x) ==
    LET r == mExpression(x, 1)
    IN  IF r.st = "ok" THEN [st |-> "ok", val |-> r.val]
        ELSE [st |-> "MalSyntaxException", val |-> MalNil]

\* str.replace(old, new) for a character old
RECURSIVE Replace(_, _, _)
Replace(val, old, new) ==
    IF val = <<>> THEN <<>>
    ELSE (IF Head(val) = old THEN new ELSE <<Head(val)>>) \o Replace(Tail(val), old, new)

\* MalString.readable_str escaping the quotes before the backslashes
StringReadableQuotesFirst(val) ==
    <<"\"">> \o Replace(Replace(Replace(val, "\"", <<"\\", "\"">>),
                                "\\", <<"\\", "\\">>),
                        "\n", <<"\\", "n">>) \o <<"\"">>

\* MalString.readable_str
StringReadable(val) ==
    <<"\"">> \o Replace(Replace(Replace(val, "\\", <<"\\", "\\">>),
                                "\n", <<"\\", "n">>),
                        "\"", <<"\\", "\"">>) \o <<"\"">>

\* str(self._value) of an int
RECURSIVE DecimalChars(_)
DecimalChars(n) ==
    IF n < 10 THEN <<DigitChars[n + 1]>>
    ELSE DecimalChars(n \div 10) \o <<DigitChars[(n % 10) + 1]>>

\* readable_str of the values read produces, as a text
RECURSIVE ReadableText(_)
RECURSIVE JoinText(_, _)
JoinText(l, i) ==
    IF i > Len(l) THEN <<>>
    ELSE IF i = Len(l) THEN ReadableText(l[i])
    ELSE ReadableText(l[i]) \o <<" ">> \o JoinText(l, i + 1)
ReadableText(v) ==
    CASE v.t = "sym" -> v.s
      [] v.t = "kw" -> <<":">> \o v.s
      [] v.t = "int" -> (IF v.n < 0 THEN <<"-">> \o DecimalChars(0 - v.n) ELSE DecimalChars(v.n))
      [] v.t = "nil" -> <<"n", "i", "l">>
      [] v.t = "bool" -> (IF v.b THEN <<"t", "r", "u", "e">> ELSE <<"f", "a", "l", "s", "e">>)
      [] v.t = "str" -> StringReadable(v.str)
      [] v.t = "list" -> <<"(">> \o JoinText(v.l, 1) \o <<")">>
      [] v.t = "vec" -> <<"[">> \o JoinText(v.l, 1) \o <<"]">>

(***************************************************************************)
(* Operations on one chain of frames, applied in any order: a lookup reads *)
(* nothing but the chain of the frame it starts from.                      *)
(***************************************************************************)
MaxEnvs == 3

EnvNames == {"a", "b"}
EnvValues == {MalInt(1), MalInt(2)}

NoEnvResult ==
    [op |-> "none", st |-> "ok", env |-> 0, key |-> "", val |-> MalNil, loc |-> 0,
     binds |-> <<>>, exprs |-> <<>>, limit |-> 0]

EnvIdle == envs = <<>> /\ lenvs = <<>> /\ eres = NoEnvResult
EnvIdleMal == envs = <<>> /\ eres = NoEnvResult
NoDotResult ==
    [op |-> "none", st |-> "ok", attr |-> "", write |-> FALSE, val |-> MalNil,
     before |-> EmptyDict]
DotIdle ==
    hobj = EmptyDict /\ handle = [type |-> "", restrictions |-> NoPolicy] /\ dres = NoDotResult
ClockIdle == now = 0 /\ limits = <<>> /\ steps = 0
MalIdle ==
    /\ mfns = <<>> /\ mstack = <<>> /\ mret = Idle
    /\ mprog = <<>> /\ mresults = <<>> /\ mcaught = {}
LispIdle ==
    /\ lprocs = <<>> /\ lballs = <<>> /\ lstack = <<>> /\ lret = LIdle
    /\ lprog = <<>> /\ lresults = <<>> /\ llimit = 0
NoCall == [op |-> "none"]
LibIdle == macro_table = InitialMacroTable /\ pres = NoCall

\* Env(outer): the child frame that let* and catch* create, or the root.
EChild ==
    /\ Len(envs) < MaxEnvs
    /\ LET r == EnvInit(envs, Len(envs), FALSE, <<>>, <<>>, 0)
       IN  /\ envs' = r.heap
           /\ eres' = [NoEnvResult EXCEPT !.op = "new", !.st = r.st, !.env = r.id,
                          !.loc = Len(envs)]
    /\ UNCHANGED <<lenvs, notEnv>>

\* env.set(key, value)
ESet ==
    /\ \E e \in 1..Len(envs), key \in EnvNames, value \in EnvValues :
        /\ envs' = EnvSet(envs, e, key, value)
        /\ eres' = [NoEnvResult EXCEPT !.op = "set", !.env = e, !.key = key, !.val = value]
    /\ UNCHANGED <<lenvs, notEnv>>

\* env.get(key)
EGet ==
    /\ \E e \in 1..Len(envs), key \in EnvNames :
        LET r == EnvGet(envs, e, key)
        IN  eres' = [NoEnvResult EXCEPT !.op = "get", !.st = r.st, !.env = e,
                        !.key = key, !.val = r.val]
    /\ UNCHANGED <<envs, lenvs, notEnv>>

\* env.find(key)
EFind ==
    /\ \E e \in 1..Len(envs), key \in EnvNames :
        eres' = [NoEnvResult EXCEPT !.op = "find", !.env = e, !.key = key,
                    !.loc = EnvFind(envs, e, key)]
    /\ UNCHANGED <<envs, lenvs, notEnv>>

InitEnv == EnvIdle /\ DotIdle /\ ClockIdle /\ MalIdle /\ LispIdle /\ LibIdle
NextEnv == EChild \/ ESet \/ EGet \/ EFind
SpecEnv == InitEnv /\ [][NextEnv]_vars

(***************************************************************************)
(* Frame construction from a parameter list and an argument list, as the   *)
(* application of a closure does it.                                       *)
(***************************************************************************)
MaxFrames == 1
MaxArgs == 3

\* Parameter lists: plain, with the rest marker, malformed.
EnvBindLists ==
    { <<>>, <<MalSymbol("a")>>, <<MalSymbol("a"), MalSymbol("b")>>,
      <<MalSymbol("&"), MalSymbol("b")>>,
      <<MalSymbol("a"), MalSymbol("&"), MalSymbol("b")>>,
      <<MalSymbol("a"), MalSymbol("b"), MalSymbol("&"), MalSymbol("c")>>,
      <<MalSymbol("a"), MalSymbol("&")>>,
      <<MalSymbol("a"), MalInt(1)>> }
EnvExprLists == UNION { [1..n -> EnvValues] : n \in 0..MaxArgs }

\* Env(outer, binds, exprs)
EBind ==
    /\ Len(envs) < MaxFrames
    /\ \E outer \in 0..Len(envs), binds \in EnvBindLists, exprs \in EnvExprLists :
        LET r == EnvInit(envs, outer, TRUE, binds, exprs, 0)
        IN  /\ envs' = r.heap
            /\ eres' = [NoEnvResult EXCEPT !.op = "new", !.st = r.st, !.env = r.id,
                           !.loc = outer, !.binds = binds, !.exprs = exprs]
    /\ UNCHANGED <<lenvs, notEnv>>

\* lispy.py: Env(parms, args, outer), parms a list of Symbols or one Symbol
LBind ==
    /\ Len(lenvs) < MaxFrames
    /\ \E binds \in {b \in EnvBindLists : \A i \in 1..Len(b) : isSymbol(b[i])} \cup {<<>>},
          single \in BOOLEAN, exprs \in EnvExprLists :
        /\ single => Len(binds) = 1
        /\ LET parms == IF single THEN binds[1] ELSE PyList(binds)
               r == LEnvInit(lenvs, parms, exprs, Len(lenvs))
           IN  /\ lenvs' = r.heap
               /\ eres' = [NoEnvResult EXCEPT !.op = "lnew", !.st = r.st, !.env = r.id,
                              !.loc = Len(lenvs), !.binds = binds, !.exprs = exprs,
                              !.key = IF single THEN "single" ELSE "list"]
    /\ UNCHANGED <<envs, notEnv>>

InitBind == EnvIdle /\ DotIdle /\ ClockIdle /\ MalIdle /\ LispIdle /\ LibIdle
NextBind == EBind \/ LBind
SpecBind == InitBind /\ [][NextBind]_vars

(***************************************************************************)
(* `.` accesses to one injected host object under every policy.            *)
(***************************************************************************)
HostTypes == {"Person", "Name"}
HostAttrs == {"count", "secret"}
DotValues == {MalInt(1), MalInt(2)}

\* Every dict from some host types to allow-lists, the empty dict included.
Policies ==
    {NoPolicy} \cup
    { Policy(m) : m \in UNION { [T -> SUBSET HostAttrs] : T \in SUBSET HostTypes } }

\* (. obj 'attr)
DotRead ==
    /\ \E attr \in HostAttrs :
        LET r == MalDot(handle, hobj, attr, FALSE, MalNil)
        IN  /\ hobj' = r.obj
            /\ dres' = [op |-> "dot", st |-> r.st, attr |-> attr, write |-> FALSE,
                        val |-> r.val, before |-> hobj]
    /\ UNCHANGED <<handle, notDot>>

\* (. obj 'attr value)
DotWrite ==
    /\ \E attr \in HostAttrs, value \in DotValues :
        LET r == MalDot(handle, hobj, attr, TRUE, value)
        IN  /\ hobj' = r.obj
            /\ dres' = [op |-> "dot", st |-> r.st, attr |-> attr, write |-> TRUE,
                        val |-> r.val, before |-> hobj]
    /\ UNCHANGED <<handle, notDot>>

\* lispy.py: (. obj 'attr) and (. obj 'attr value)
ProcDotAccess ==
    /\ handle.restrictions.some
    /\ \E attr \in HostAttrs, hasValue \in BOOLEAN, value \in {PyInt(1), PyInt(2)} :
        /\ hasValue \/ value = PyInt(1)
        /\ LET r == ProcDot(handle.restrictions.map, handle.type, hobj, attr,
                            hasValue, value)
           IN  /\ hobj' = r.obj
               /\ dres' = [op |-> "proc_dot", st |-> r.st, attr |-> attr,
                           write |-> hasValue, val |-> r.val, before |-> hobj]
    /\ UNCHANGED <<handle, notDot>>

InitDot ==
    /\ EnvIdle
    /\ hobj = [a \in HostAttrs |-> IF a = "count" THEN PyInt(7) ELSE PyInt(9)]
    /\ handle \in [type : {"Person"}, restrictions : Policies]
    /\ dres = NoDotResult
    /\ ClockIdle /\ MalIdle /\ LispIdle /\ LibIdle
NextDot == DotRead \/ DotWrite \/ ProcDotAccess
SpecDot == InitDot /\ [][NextDot]_vars

(***************************************************************************)
(* The MAL evaluator at work: the host hands the top-level forms of a      *)
(* program to Lispy.eval one after another (lispy/interpreter.py).         *)
(***************************************************************************)
MaxStepsPerTick == 2
MaxLimit == 2

\* The evaluator's state as one record, and its assignment to the variables.
MalState ==
    [stack |-> mstack, envs |-> envs, fns |-> mfns, ret |-> mret, caught |-> mcaught]
MalUpdate(s) ==
    /\ mstack' = s.stack /\ envs' = s.envs /\ mfns' = s.fns
    /\ mret' = s.ret /\ mcaught' = s.caught

\* init_repl_env: the root frame with the functions of core.ns
RECURSIVE SetCore(_, _)
SetCore(h, i) ==
    IF i > Len(CoreNames) THEN h
    ELSE SetCore(EnvSet(h, 1, CoreNames[i], MalFunction(i)), i + 1)
init_repl_env(execution_limit) ==
    SetCore(EnvInit(<<>>, 0, FALSE, <<>>, <<>>, execution_limit).heap, 1)
CoreFunctions ==
    [i \in 1..Len(CoreNames) |-> [kind |-> "compiled", p |-> CoreNames[i], is_macro |-> FALSE]]

\* The check at the top of the evaluator's loop: does it abort the call?
LoopCheck(s, ls, t) == EnvCheckExecutionLimit(s.envs, ls, TopOf(s).env, t)

\* One iteration of the loop of the innermost call at clock reading t.
EvalIter(s, ls, t) ==
    LET f == TopOf(s)
        handled == IF f.catching = "" THEN {} ELSE {f.catching}
    IN  IF LoopCheck(s, ls, t)
        THEN RaiseFrom([s EXCEPT !.caught = @ \cup {<<"raised", "MalExecutionLimitError">>}
                                              \cup {<<"aborted", c>> : c \in handled}],
                       MalExecutionLimitError("execution time limit exceeded"))
        ELSE EvalLoop(WithTop([s EXCEPT !.caught = @ \cup {<<"body", c>> : c \in handled}],
                              [f EXCEPT !.catching = ""]))

\* Lispy.eval(expr): reset the limit, then EVAL(READ(expr), self.env)
M_Request ==
    /\ mstack = <<>> /\ mret.kind = "idle"
    /\ Len(mresults) < Len(mprog)
    /\ limits' = EnvResetExecutionLimit(envs, limits, 1, now)
    \* the reset through the root frame, and the clock reading it was made at
    /\ eres' = [NoEnvResult EXCEPT !.op = "reset", !.env = 1, !.loc = now]
    /\ mstack' = <<Frame(mprog[Len(mresults) + 1], 1)>>
    /\ mret' = Running
    /\ mcaught' = {}
    /\ UNCHANGED <<envs, mfns, mprog, mresults, now, steps, lenvs, dotVars, lispVars, libVars>>

\* an iteration of EVAL's loop
M_Iter ==
    /\ mstack # <<>> /\ mret.kind = "run"
    /\ MalUpdate(EvalIter(MalState, limits, now))
    /\ UNCHANGED <<mprog, mresults, clockVars, notMal>>

\* an iteration of EVAL's loop, which takes its time
M_IterTimed ==
    /\ mstack # <<>> /\ mret.kind = "run"
    /\ steps < MaxStepsPerTick
    /\ steps' = steps + 1
    /\ MalUpdate(EvalIter(MalState, limits, now))
    /\ UNCHANGED <<mprog, mresults, now, limits, notMal>>

\* a nested EVAL returns into the call that made it
M_Resume ==
    /\ mstack # <<>> /\ mret.kind = "val"
    /\ MalUpdate(Resume(MalState, mret.val))
    /\ UNCHANGED <<mprog, mresults, clockVars, notMal>>

\* a nested EVAL raises into the call that made it
M_Unwind ==
    /\ mstack # <<>> /\ mret.kind = "exc"
    /\ MalUpdate(Unwind(MalState, mret))
    /\ UNCHANGED <<mprog, mresults, clockVars, notMal>>

\* the outermost EVAL returns or raises to the host
M_Finish ==
    /\ mstack = <<>> /\ mret.kind \in {"val", "exc"}
    /\ mresults' = Append(mresults, mret)
    /\ mret' = Idle
    /\ UNCHANGED <<envs, mfns, mstack, mprog, mcaught, clockVars, notMal>>

\* time passes while a request is evaluated; readings later than one unit
\* past the deadline are all alike to the check
M_Tick ==
    /\ mstack # <<>>
    /\ envs[1].limit # 0
    /\ now < limits[envs[1].limit].start_time + limits[envs[1].limit].time_limit + 1
    /\ now' = now + 1
    /\ steps' = 0
    /\ UNCHANGED <<limits, envs, malVars, notMal>>

\* time passes between two requests, up to one unit past the deadline of
\* the request before
M_Wait ==
    /\ mstack = <<>> /\ mret.kind = "idle"
    /\ Len(mresults) < Len(mprog)
    /\ envs[1].limit # 0
    /\ now < limits[envs[1].limit].start_time + limits[envs[1].limit].time_limit + 1
    /\ now' = now + 1
    /\ steps' = 0
    /\ UNCHANGED <<limits, envs, malVars, notMal>>

(***************************************************************************)
(* Programs, as the reader hands them over.                                *)
(***************************************************************************)
MaxN == 3

\* tests/test_step5.py: the accumulating function and its call (f n 0)
SumProgram(n) ==
    LET S(x) == MalSymbol(x)
        L(x) == MalList(x)
    IN  << L(<<S("def!"), S("f"),
               L(<<S("fn*"), L(<<S("n"), S("acc")>>),
                   L(<<S("if"), L(<<S("="), S("n"), MalInt(0)>>),
                       S("acc"),
                       L(<<S("f"), L(<<S("-"), S("n"), MalInt(1)>>),
                                   L(<<S("+"), S("n"), S("acc")>>)>>)>>)>>)>>),
           L(<<S("f"), MalInt(n), MalInt(0)>>) >>

\* (def! x 1) and then x shadowed by let*, by a parameter, by catch*
ShadowProgram(v) ==
    LET S(x) == MalSymbol(x)
        L(x) == MalList(x)
    IN  << L(<<S("def!"), S("x"), MalInt(1)>>),
           L(<<S("list"),
               L(<<S("let*"), L(<<S("x"), MalInt(v)>>), S("x")>>),
               L(<<L(<<S("fn*"), L(<<S("x")>>), S("x")>>), MalInt(v + 1)>>),
               L(<<S("try*"), L(<<S("throw"), MalInt(v + 2)>>),
                   L(<<S("catch*"), S("x"), S("x")>>)>>),
               S("x")>>),
           S("x") >>

\* a closure of two parameters applied to k arguments, inside try*
ArityProgram(k) ==
    LET S(x) == MalSymbol(x)
        L(x) == MalList(x)
    IN  << L(<<S("try*"),
               L(<<L(<<S("fn*"), L(<<S("a"), S("b")>>), L(<<S("list"), S("a"), S("b")>>)>>)>>
                 \o [i \in 1..k |-> MalInt(i)]),
               L(<<S("catch*"), S("e"), S("e")>>)>>) >>

\* a macro, its use, its expansion; do, if without else, a lookup miss
MacroProgram ==
    LET S(x) == MalSymbol(x)
        L(x) == MalList(x)
        use == L(<<S("unless"), MalBoolean(FALSE), MalInt(7), MalInt(8)>>)
    IN  << L(<<S("defmacro!"), S("unless"),
               L(<<S("fn*"), L(<<S("p"), S("a"), S("b")>>),
                   L(<<S("quasiquote"),
                       L(<<S("if"), L(<<S("unquote"), S("p")>>),
                           L(<<S("unquote"), S("b")>>),
                           L(<<S("unquote"), S("a")>>)>>)>>)>>)>>),
           use,
           L(<<S("macroexpand"), use>>),
           L(<<S("do"), L(<<S("def!"), S("y"), L(<<S("quote"), L(<<MalInt(1)>>)>>)>>),
               L(<<S("if"), MalNil, MalInt(1)>>),
               L(<<S("quasiquote"), L(<<MalInt(0), L(<<S("splice-unquote"), S("y")>>)>>)>>)>>),
           L(<<S("try*"), L(<<MalInt(1), MalInt(2)>>),
               L(<<S("catch*"), S("e"), S("undefined")>>)>>) >>

\* tests/test_lispy.py: (define L (list 1 2 3)) and a quasiquoted list of
\* literal, unquoted and spliced elements, as `(testing ,@L testing)
MaxQuasi == 2
QuasiElems ==
    { MalSymbol("a"), MalList(<<MalSymbol("b")>>),
      MalList(<<MalSymbol("unquote"), MalSymbol("L")>>),
      MalList(<<MalSymbol("splice-unquote"), MalSymbol("L")>>) }
QuasiProgram(elems) ==
    << MalList(<<MalSymbol("def!"), MalSymbol("L"),
                 MalList(<<MalSymbol("list"), MalInt(1), MalInt(2), MalInt(3)>>)>>),
       MalList(<<MalSymbol("quasiquote"), MalList(elems)>>) >>

\* tests/test_lispy.py: `,@L after (define L (list 1 2 3)), and `(,@L)
SpliceProgram ==
    LET splice == MalList(<<MalSymbol("splice-unquote"), MalSymbol("L")>>)
    IN  << MalList(<<MalSymbol("def!"), MalSymbol("L"),
                     MalList(<<MalSymbol("list"), MalInt(1), MalInt(2), MalInt(3)>>)>>),
           MalList(<<MalSymbol("quasiquote"), splice>>),
           MalList(<<MalSymbol("quasiquote"), MalList(<<splice>>)>>) >>

\* tests/test_lispy.py: a macro definition in a branch of `if`; one in the
\* body of a function that is called; a use of the first
NestedMacroProgram ==
    LET S(x) == MalSymbol(x)
        L(x) == MalList(x)
        def(name) == L(<<S("defmacro!"), S(name), L(<<S("fn*"), L(<<S("x")>>), S("x")>>)>>)
    IN  << L(<<S("if"), MalBoolean(TRUE), def("m"), def("k")>>),
           L(<<L(<<S("fn*"), L(<<>>), def("k")>>)>>),
           L(<<S("m"), L(<<S("list"), MalInt(7)>>)>>) >>

\* try* around an expression that returns (list x) and around one that
\* throws x, with and without a catch* clause; x is a constant or a list
TryExprs ==
    {MalInt(n) : n \in 1..MaxN}
    \cup {MalNil, MalList(<<MalSymbol("list"), MalInt(1), MalInt(2)>>)}
TryProgram(x) ==
    LET S(y) == MalSymbol(y)
        L(y) == MalList(y)
        throwing == L(<<S("throw"), x>>)
    IN  << L(<<S("try*"), L(<<S("list"), x>>), L(<<S("catch*"), S("e"), L(<<S("list"), S("e")>>)>>)>>),
           L(<<S("try*"), throwing, L(<<S("catch*"), S("e"), L(<<S("list"), S("e"), S("e")>>)>>)>>),
           L(<<S("try*"), throwing>>),
           L(<<S("try*"), L(<<S("try*"), throwing>>), L(<<S("catch*"), S("e"), S("e")>>)>>),
           S("e") >>

MalPrograms ==
    {SumProgram(n) : n \in 0..MaxN} \cup {ShadowProgram(v) : v \in 2..MaxN}
    \cup {ArityProgram(k) : k \in 0..MaxN} \cup {MacroProgram}
    \cup {QuasiProgram(elems) : elems \in UNION {[1..n -> QuasiElems] : n \in 0..MaxQuasi}}
    \cup {SpliceProgram, NestedMacroProgram}
    \cup {TryProgram(x) : x \in TryExprs}

InitMal ==
    /\ lenvs = <<>> /\ eres = NoEnvResult /\ DotIdle /\ ClockIdle /\ LispIdle /\ LibIdle
    /\ envs = init_repl_env(0)
    /\ mfns = CoreFunctions
    /\ mstack = <<>> /\ mret = Idle /\ mresults = <<>> /\ mcaught = {}
    /\ mprog \in MalPrograms
NextMal == M_Request \/ M_Iter \/ M_Resume \/ M_Unwind \/ M_Finish
SpecMal == InitMal /\ [][NextMal]_vars

(***************************************************************************)
(* The MAL evaluator under an execution limit attached to the root frame,  *)
(* with the clock running while a request is evaluated.                    *)
(***************************************************************************)
\* tests/test_limit.py: a function that calls itself forever, here called
\* inside the protected expression of try*, once and nested
LoopProgram(nested) ==
    LET S(x) == MalSymbol(x)
        L(x) == MalList(x)
        inner == L(<<S("try*"), L(<<S("loop")>>), L(<<S("catch*"), S("e"), MalInt(1)>>)>>)
    IN  << L(<<S("def!"), S("loop"), L(<<S("fn*"), L(<<>>), L(<<S("loop")>>)>>)>>),
           IF nested
           THEN L(<<S("try*"), inner, L(<<S("catch*"), S("e"), MalInt(2)>>)>>)
           ELSE inner >>

\* protected expressions that end: one returns, one throws
GuardedProgram ==
    LET S(x) == MalSymbol(x)
        L(x) == MalList(x)
    IN  << L(<<S("try*"), L(<<S("do"), MalInt(1), L(<<S("+"), MalInt(1), MalInt(2)>>)>>),
               L(<<S("catch*"), S("e"), L(<<S("list"), S("e")>>)>>)>>),
           L(<<S("try*"), L(<<S("throw"), MalInt(1)>>),
               L(<<S("catch*"), S("e"), L(<<S("list"), S("e")>>)>>)>>) >>

MalLimitPrograms == {LoopProgram(nested) : nested \in BOOLEAN} \cup {GuardedProgram}

InitMalLimit ==
    /\ lenvs = <<>> /\ eres = NoEnvResult /\ DotIdle /\ LispIdle /\ LibIdle
    /\ now = 0 /\ steps = 0
    /\ \E time_limit \in 1..MaxLimit :
        limits = <<[time_limit |-> time_limit, start_time |-> 0]>>
    /\ envs = init_repl_env(1)
    /\ mfns = CoreFunctions
    /\ mstack = <<>> /\ mret = Idle /\ mresults = <<>> /\ mcaught = {}
    /\ mprog \in MalLimitPrograms
NextMalLimit ==
    M_Request \/ M_IterTimed \/ M_Resume \/ M_Unwind \/ M_Finish \/ M_Tick \/ M_Wait
SpecMalLimit == InitMalLimit /\ [][NextMalLimit]_vars

(***************************************************************************)
(* The lispy.py evaluator at work: the host loads the expressions of a     *)
(* program one after another (Lispy.load), each already parsed and         *)
(* expanded.                                                               *)
(***************************************************************************)
LispState ==
    [stack |-> lstack, envs |-> lenvs, procs |-> lprocs, balls |-> lballs, ret |-> lret]
LispUpdate(s) ==
    /\ lstack' = s.stack /\ lenvs' = s.envs /\ lprocs' = s.procs
    /\ lballs' = s.balls /\ lret' = s.ret

\* Lispy.__init__: global_env with the entries of add_globals
global_env == <<[outer |-> 0, data |-> [n \in GlobalNames |-> Primitive(n)]]>>

\* load(expressions): no limit installed
L_Load ==
    /\ lstack = <<>> /\ lret.kind = "idle"
    /\ Len(lresults) < Len(lprog)
    /\ llimit' = 0
    /\ lstack' = <<LFrame(lprog[Len(lresults) + 1], 1)>>
    /\ lret' = LRunning
    /\ UNCHANGED <<lenvs, lprocs, lballs, lprog, lresults, clockVars, notLisp>>

\* load(expressions, Limit(time_limit)), or load(expressions, None)
L_LoadLimited ==
    /\ lstack = <<>> /\ lret.kind = "idle"
    /\ Len(lresults) < Len(lprog)
    /\ \E time_limit \in 0..MaxLimit :
        IF time_limit = 0
        THEN llimit' = 0 /\ limits' = limits
        ELSE /\ limits' = Append(limits, [time_limit |-> time_limit, start_time |-> now])
             /\ llimit' = Len(limits) + 1
    /\ lstack' = <<LFrame(lprog[Len(lresults) + 1], 1)>>
    /\ lret' = LRunning
    /\ UNCHANGED <<lenvs, lprocs, lballs, lprog, lresults, now, steps, notLisp>>

\* a turn of eval's loop
L_Iter ==
    /\ lstack # <<>> /\ lret.kind = "run"
    /\ LispUpdate(LEvalIter(LispState, llimit, limits, now))
    /\ UNCHANGED <<lprog, lresults, llimit, clockVars, notLisp>>

\* a turn of eval's loop, which takes its time
L_IterTimed ==
    /\ lstack # <<>> /\ lret.kind = "run"
    /\ steps < MaxStepsPerTick
    /\ steps' = steps + 1
    /\ LispUpdate(LEvalIter(LispState, llimit, limits, now))
    /\ UNCHANGED <<lprog, lresults, llimit, now, limits, notLisp>>

\* a call returns into the call that made it
L_Resume ==
    /\ lstack # <<>> /\ lret.kind = "val"
    /\ LispUpdate(LResume(LispState, lret.val))
    /\ UNCHANGED <<lprog, lresults, llimit, clockVars, notLisp>>

\* a call raises into the call that made it
L_Unwind ==
    /\ lstack # <<>> /\ lret.kind = "exc"
    /\ LispUpdate(LUnwind(LispState, lret))
    /\ UNCHANGED <<lprog, lresults, llimit, clockVars, notLisp>>

\* a `limited` that leaves the limit installed when the block is left
LimitedKeep(limit) == limit

\* Lispy.limited, `finally: self.limit = None`
LimitedFinally(limit) == 0

\* load returns or raises to the host; `finally` uninstalls the limit
L_Finish ==
    /\ lstack = <<>> /\ lret.kind \in {"val", "exc"}
    /\ lresults' = Append(lresults, lret)
    /\ lret' = LIdle
    /\ llimit' = LimitedFinally(llimit)
    /\ UNCHANGED <<lenvs, lprocs, lballs, lstack, lprog, clockVars, notLisp>>

\* time passes while a load with a limit is evaluated; readings later than
\* one unit past the deadline are all alike to the check
L_Tick ==
    /\ lstack # <<>>
    /\ llimit # 0
    /\ now < limits[llimit].start_time + limits[llimit].time_limit + 1
    /\ now' = now + 1
    /\ steps' = 0
    /\ UNCHANGED <<limits, lenvs, lispVars, notLisp>>

\* tests/test_lispy.py: call/cc whose procedure does or does not throw, and
\* a variable that the expression after the throw would set
CallccProgram(invoke, v) ==
    LET S(x) == Symbol(x)
        L(x) == PyList(x)
    IN  << L(<<S("define"), S("hit"), PyInt(0)>>),
           L(<<S("call/cc"),
               L(<<S("lambda"), L(<<S("throw")>>),
                   L(<<S("begin"),
                       L(<<S("+"), PyInt(5),
                           L(<<S("*"), PyInt(10),
                               IF invoke THEN L(<<S("throw"), PyInt(v)>>) ELSE PyInt(v)>>)>>),
                       L(<<S("set!"), S("hit"), PyInt(1)>>),
                       PyInt(7)>>)>>)>>),
           S("hit") >>

\* tests/test_lispy.py: call/cc inside call/cc; the inner procedure throws
\* to the inner one ("escape"), to the outer one ("throw") or not at all
NestedProgram(which, v) ==
    LET S(x) == Symbol(x)
        L(x) == PyList(x)
        thrown == IF which = "none" THEN PyInt(v) ELSE L(<<S(which), PyInt(v)>>)
        inner == L(<<S("call/cc"),
                     L(<<S("lambda"), L(<<S("escape")>>), L(<<S("*"), PyInt(100), thrown>>)>>)>>)
    IN  << L(<<S("call/cc"),
               L(<<S("lambda"), L(<<S("throw")>>),
                   L(<<S("+"), PyInt(5), L(<<S("*"), PyInt(10), inner>>)>>)>>)>>) >>

\* a continuation kept in a variable and invoked after its call/cc returned,
\* at top level or inside the procedure of another call/cc
StaleProgram(active, v) ==
    LET S(x) == Symbol(x)
        L(x) == PyList(x)
    IN  << L(<<S("define"), S("saved"), PyInt(0)>>),
           L(<<S("define"), S("hit"), PyInt(0)>>),
           L(<<S("call/cc"), L(<<S("lambda"), L(<<S("k")>>),
                                 L(<<S("set!"), S("saved"), S("k")>>)>>)>>),
           IF active
           THEN L(<<S("call/cc"),
                    L(<<S("lambda"), L(<<S("k2")>>),
                        L(<<S("begin"), L(<<S("saved"), PyInt(v)>>),
                            L(<<S("set!"), S("hit"), PyInt(1)>>), PyInt(7)>>)>>)>>)
           ELSE L(<<S("saved"), PyInt(v)>>),
           S("hit") >>

\* tests/test_lispy.py: (twice 2) and (twice 2 2); a quoted list through a
\* procedure with one Symbol as parameter list; a lookup miss
TwiceProgram ==
    LET S(x) == Symbol(x)
        L(x) == PyList(x)
    IN  << L(<<S("define"), S("twice"),
               L(<<S("lambda"), L(<<S("x")>>), L(<<S("*"), PyInt(2), S("x")>>)>>)>>),
           L(<<S("twice"), PyInt(2)>>),
           L(<<S("twice"), PyInt(2), PyInt(2)>>),
           L(<<L(<<S("lambda"), S("items"), S("items")>>),
               L(<<S("quote"), L(<<PyInt(1)>>)>>),
               L(<<S("if"), L(<<S("="), PyInt(3), PyInt(4)>>), PyInt(2), None>>)>>),
           L(<<S("set!"), S("undefined"), PyInt(1)>>) >>

\* a procedure that calls itself forever in tail position
LoopLispProgram ==
    LET S(x) == Symbol(x)
        L(x) == PyList(x)
    IN  << L(<<S("define"), S("loop"), L(<<S("lambda"), L(<<>>), L(<<S("loop")>>)>>)>>),
           L(<<S("loop")>>) >>

LispPrograms ==
    {CallccProgram(invoke, v) : invoke \in BOOLEAN, v \in 1..MaxN}
    \cup {NestedProgram(which, v) : which \in {"throw", "escape", "none"}, v \in 1..MaxN}
    \cup {StaleProgram(active, v) : active \in BOOLEAN, v \in 1..MaxN}
    \cup {TwiceProgram}

InitLispy ==
    /\ EnvIdleMal /\ DotIdle /\ ClockIdle /\ MalIdle /\ LibIdle
    /\ lenvs = global_env
    /\ lprocs = <<>> /\ lballs = <<>> /\ lstack = <<>> /\ lret = LIdle
    /\ lresults = <<>> /\ llimit = 0
    /\ lprog \in LispPrograms
NextLispy == L_Load \/ L_Iter \/ L_Resume \/ L_Unwind \/ L_Finish
SpecLispy == InitLispy /\ [][NextLispy]_vars

InitLispyLimit ==
    /\ EnvIdleMal /\ DotIdle /\ ClockIdle /\ MalIdle /\ LibIdle
    /\ lenvs = global_env
    /\ lprocs = <<>> /\ lballs = <<>> /\ lstack = <<>> /\ lret = LIdle
    /\ lresults = <<>> /\ llimit = 0
    /\ lprog \in {LoopLispProgram, SubSeq(TwiceProgram, 1, 3)}
NextLispyLimit ==
    L_LoadLimited \/ L_IterTimed \/ L_Resume \/ L_Unwind \/ L_Finish \/ L_Tick
SpecLispyLimit == InitLispyLimit /\ [][NextLispyLimit]_vars
\* The interpreter goes on running and the clock goes on: a step that stays
\* possible is taken.
FairLispyLimit == SpecLispyLimit /\ WF_vars(NextLispyLimit)

(***************************************************************************)
(* Lispy.expand applied to forms as Lispy.read hands them over, at top     *)
(* level (Lispy.parse) or not (the calls expand makes itself), and applied *)
(* again to what it returned.                                              *)
(***************************************************************************)
MaxBindings == 2

\* the well-formed elements a binding list of let is made of
BindingElems ==
    { PyList(<<Symbol("a"), PyInt(1)>>),
      PyList(<<Symbol("b"), PyList(<<Symbol("if"), PyInt(1), PyInt(2)>>)>>) }
\* tests/test_lispy.py: (let ((a 1) (b 2 3)) (+ a b)); a name that is no
\* symbol; an element that is no list
MalformedBindingLists ==
    { <<PyList(<<Symbol("a"), PyInt(1)>>), PyList(<<Symbol("b"), PyInt(2), PyInt(3)>>)>>,
      <<PyList(<<Symbol("b")>>)>>,
      <<PyList(<<PyInt(1), PyInt(2)>>), PyList(<<Symbol("a"), PyInt(1)>>)>>,
      <<PyList(<<Symbol("a"), PyInt(1)>>), PyInt(5)>> }
LetBindingLists ==
    UNION {[1..n -> BindingElems] : n \in 0..MaxBindings} \cup MalformedBindingLists
LetBodies ==
    { <<>>, <<Symbol("a"), PyList(<<Symbol("if"), PyInt(1), PyInt(2)>>)>> }
LetForms ==
    {PyList(<<Symbol("let"), PyList(bs)>> \o body) :
         bs \in LetBindingLists, body \in LetBodies}
    \cup {PyList(<<Symbol("let"), b, Symbol("a")>>) : b \in {PyInt(5), Symbol("a"), None}}

\* the definitions of the macros m (its argument), k (a constant form) and
\* c (the primitive list), well-formed or not, at top level or not
MacroDefinitions ==
    LET S(x) == Symbol(x)
        L(x) == PyList(x)
        m == L(<<S("define-macro"), S("m"), L(<<S("lambda"), L(<<S("x")>>), S("x")>>)>>)
        k == L(<<S("define-macro"), S("k"),
                 L(<<S("lambda"), S("x"),
                     L(<<S("quote"), L(<<S("if"), PyInt(1), PyInt(2)>>)>>)>>)>>)
    IN  { m, k,
          L(<<S("define-macro"), S("c"), S("list")>>),
          L(<<S("define-macro"), S("m"), PyInt(1)>>),
          L(<<S("define-macro"), S("m"), S("undefined")>>),
          L(<<S("define-macro"), L(<<S("m"), S("x")>>), S("x")>>),
          L(<<S("begin"), m, L(<<S("m"), PyInt(1)>>)>>),
          L(<<S("begin"), L(<<S("begin"), k>>)>>),
          \* tests/test_lispy.py: (if (= 1 2) (define-macro a 'a) (define-macro a 'b))
          L(<<S("if"), PyInt(1), m, k>>),
          L(<<S("if"), PyInt(1), m>>),
          L(<<S("lambda"), L(<<>>), m>>),
          L(<<S("lambda"), L(<<>>), PyInt(1), k>>),
          L(<<S("define"), S("f"), m>>),
          L(<<S("f"), m>>),
          L(<<S("begin"), k, L(<<S("if"), PyInt(1), m>>)>>) }

OtherForms ==
    LET S(x) == Symbol(x)
        L(x) == PyList(x)
        if2 == L(<<S("if"), PyInt(1), PyInt(2)>>)
        let1 == L(<<S("let"), L(<<L(<<S("a"), PyInt(1)>>)>>), S("a")>>)
    IN  { PyInt(1), S("a"), None, L(<<>>),
          L(<<S("quote"), S("a")>>), L(<<S("quote"), S("a"), S("b")>>),
          L(<<S("quote"), if2>>),
          if2, L(<<S("if"), PyInt(1), PyInt(2), PyInt(3)>>),
          L(<<S("if"), PyInt(1), PyInt(2), PyInt(3), PyInt(4)>>),
          L(<<S("if"), PyInt(1), if2>>), L(<<S("if"), PyInt(1)>>),
          L(<<S("set!"), S("a"), if2>>), L(<<S("set!"), PyInt(1), PyInt(1)>>),
          L(<<S("set!"), S("a")>>),
          L(<<S("define"), S("a"), if2>>), L(<<S("define"), PyInt(3), PyInt(4)>>),
          L(<<S("define"), L(<<S("f"), S("x")>>), PyInt(1), if2>>),
          L(<<S("define"), L(<<L(<<S("f"), S("x")>>), S("y")>>), S("x")>>),
          L(<<S("define"), S("a")>>), L(<<S("define"), S("a"), PyInt(1), PyInt(2)>>),
          L(<<S("begin")>>), L(<<S("begin"), PyInt(1), if2>>),
          L(<<S("lambda"), L(<<S("x")>>), PyInt(1), if2>>),
          L(<<S("lambda"), L(<<S("x")>>), S("x")>>),
          L(<<S("lambda"), S("x"), S("x")>>),
          L(<<S("lambda"), PyInt(3), PyInt(3)>>),
          L(<<S("lambda"), L(<<S("x")>>)>>),
          L(<<S("lambda"), L(<<PyInt(1)>>), S("x")>>),
          L(<<S("quasiquote"), S("a")>>),
          L(<<S("quasiquote"), S("a"), S("b")>>),
          L(<<S("quasiquote"), L(<<S("unquote"), S("a")>>)>>),
          L(<<S("quasiquote"), L(<<S("unquote"), S("a"), S("b")>>)>>),
          L(<<S("quasiquote"), L(<<S("unquote-splicing"), S("L")>>)>>),
          L(<<S("quasiquote"), L(<<S("a"), L(<<S("unquote-splicing"), S("L")>>), S("b")>>)>>),
          L(<<S("quasiquote"), L(<<S("a"), L(<<S("unquote-splicing"), S("L"), S("L")>>)>>)>>),
          L(<<S("quasiquote"), L(<<S("a"), L(<<S("unquote"), S("L")>>), S("b")>>)>>),
          L(<<S("quasiquote"), L(<<L(<<S("unquote"), if2>>)>>)>>),
          L(<<S("quasiquote"), L(<<L(<<S("unquote"), let1>>)>>)>>),
          L(<<S("quasiquote"), L(<<L(<<S("unquote"), L(<<S("m"), PyInt(1)>>)>>)>>)>>),
          L(<<S("m"), PyInt(1)>>), L(<<S("m"), if2>>), L(<<S("m")>>),
          L(<<S("m"), L(<<S("m"), S("a")>>)>>),
          L(<<S("k")>>), L(<<S("k"), PyInt(1)>>),
          L(<<S("c"), PyInt(1), PyInt(2)>>), L(<<S("c")>>),
          L(<<S("f"), PyInt(1), if2>>), L(<<S("f"), L(<<>>)>>),
          L(<<S("f"), let1>>) }

ExpandForms == LetForms \cup MacroDefinitions \cup OtherForms

\* self.expand(x, toplevel) for a form just read
Expand ==
    \E x \in ExpandForms, toplevel \in BOOLEAN :
        LET r == expand(x, toplevel, macro_table)
        IN  /\ pres' = [op |-> "expand", x |-> x, toplevel |-> toplevel,
                        st |-> r.st, val |-> r.val, before |-> macro_table]
            /\ macro_table' = r.mt
            /\ UNCHANGED notLib

\* self.expand(x, toplevel) for the form the last call returned
ExpandAgain ==
    /\ pres.op \in {"expand", "again"}
    /\ pres.st = "ok"
    /\ \E toplevel \in BOOLEAN :
        LET r == expand(pres.val, toplevel, macro_table)
        IN  /\ pres' = [op |-> "again", x |-> pres.val, toplevel |-> toplevel,
                        st |-> r.st, val |-> r.val, before |-> macro_table]
            /\ macro_table' = r.mt
            /\ UNCHANGED notLib

InitExpand ==
    /\ EnvIdle /\ DotIdle /\ ClockIdle /\ MalIdle /\ LispIdle
    /\ macro_table = InitialMacroTable
    /\ pres = NoCall
NextExpand == Expand \/ ExpandAgain
SpecExpand == InitExpand /\ [][NextExpand]_vars

(***************************************************************************)
(* A literal is read, the value printed in its readable form, and the text *)
(* printed read back (lispy/reader.py read, MalExpression.readable_str).   *)
(***************************************************************************)
MaxStr == 3
MaxPieces == 3

\* string literals: every body of up to MaxStr characters between quotes,
\* well-formed or not
StrChars == {"a", "n", "\\", "\"", "\n"}
StringLiterals ==
    {<<"\"">> \o body \o <<"\"">> : body \in UNION {[1..n -> StrChars] : n \in 0..MaxStr}}

\* texts put together from brackets, blanks and atoms
Pieces ==
    { <<"(">>, <<")">>, <<"[">>, <<"]">>, <<" ">>, <<"'">>, <<"1">>,
      <<"n", "i", "l">>, <<"t", "r", "u", "e">>, <<":", "a">>,
      <<"\"", "\\", "\"", "\\", "n", "\"">> }
RECURSIVE Flatten(_)
Flatten(ps) == IF ps = <<>> THEN <<>> ELSE Head(ps) \o Flatten(Tail(ps))
PieceTexts ==
    {Flatten(ps) : ps \in UNION {[1..n -> Pieces] : n \in 0..MaxPieces}}

\* numbers with sign, zeros and a fraction; words next to nil and true;
\* comments and commas; deeper nesting; all three escapes in one string
OtherLiterals ==
    { <<"-", "1", "2">>, <<"-", "0">>, <<"0", "0", "7">>, <<"-">>, <<"-", "a">>,
      <<"1", ".", "5">>, <<"(", "1", ".", "5", ")">>, <<"1", "a">>,
      <<"n", "i", "l", "?">>, <<"(", "n", "i", "l", "a", ")">>,
      <<"f", "a", "l", "s", "e">>, <<"t", "r", "u", "e", "?">>,
      <<":">>, <<"(", ":", ")">>, <<":", "a", ":", "1">>,
      <<";", "a", "\n", "1">>, <<"(", "1", ",", ",", "1", ";", ")">>,
      <<"~", "@", "a">>, <<"~", "a">>, <<"@", "a">>, <<"~", "@">>, <<"(", "~", ")">>, <<"@">>, <<"'", "(", "a", ")">>,
      <<"[", "(", "[", "1", "]", ":", "a", ")", " ", "\"", "a", "\"", "]">>,
      <<"(", "\"", "\\", "\\", "\\", "n", "\\", "\"", "\"", " ", "[", "]", ")">>,
      <<"\"", "\\", "\\", "\\", "n", "\\", "\"", "\"">>,
      <<"\"", "\\", "t", "a", "\"">>, <<"\"", "a">>, <<"\"">> }

Literals == StringLiterals \cup PieceTexts \cup OtherLiterals

NoValue == MalNil
\* read(x) for the literal
Read ==
    /\ pres.op = "literal"
    /\ LET r == read(pres.x)
       IN  pres' = [op |-> "read", x |-> pres.x, st |-> r.st, val |-> r.val, of |-> NoValue]
    /\ UNCHANGED <<macro_table, notLib>>

\* the readable form of the value read
PrintReadably ==
    /\ pres.op = "read" /\ pres.st = "ok"
    /\ pres' = [op |-> "print", x |-> ReadableText(pres.val), st |-> "ok",
                val |-> pres.val, of |-> NoValue]
    /\ UNCHANGED <<macro_table, notLib>>

\* read(x) for the text printed
ReadBack ==
    /\ pres.op = "print"
    /\ LET r == read(pres.x)
       IN  pres' = [op |-> "reread", x |-> pres.x, st |-> r.st, val |-> r.val,
                    of |-> pres.val]
    /\ UNCHANGED <<macro_table, notLib>>

InitRead ==
    /\ EnvIdle /\ DotIdle /\ ClockIdle /\ MalIdle /\ LispIdle
    /\ macro_table = InitialMacroTable
    /\ \E x \in Literals :
           pres = [op |-> "literal", x |-> x, st |-> "ok", val |-> NoValue, of |-> NoValue]
NextRead == Read \/ PrintReadably \/ ReadBack
SpecRead == InitRead /\ [][NextRead]_vars

(***************************************************************************)
(* (= a b) and (= b a) on lists and vectors (lispy/core.py equal).         *)
(***************************************************************************)
MaxElems == 2

\* elements: numbers, a string, nil, and lists and vectors nested twice
EqElems ==
    { MalInt(1), MalInt(2), MalNil,
      MalList(<<>>), MalVector(<<MalInt(1)>>), MalList(<<MalVector(<<MalInt(1)>>)>>) }
EqSeqs == UNION {[1..n -> EqElems] : n \in 0..MaxElems}
EqValues ==
    {MalList(l) : l \in EqSeqs} \cup {MalVector(l) : l \in EqSeqs}
    \cup {MalInt(1), MalNil, MalString(<<>>)}

\* equal(a, b)
Equal ==
    /\ pres.op = "pair"
    /\ pres' = [pres EXCEPT !.op = "equal", !.ab = MalEq(pres.a, pres.b)]
    /\ UNCHANGED <<macro_table, notLib>>

\* equal(b, a)
EqualSwapped ==
    /\ pres.op = "equal"
    /\ pres' = [pres EXCEPT !.op = "swapped", !.ba = MalEq(pres.b, pres.a)]
    /\ UNCHANGED <<macro_table, notLib>>

InitEqual ==
    /\ EnvIdle /\ DotIdle /\ ClockIdle /\ MalIdle /\ LispIdle
    /\ macro_table = InitialMacroTable
    /\ \E a \in EqValues, b \in EqValues :
           pres = [op |-> "pair", a |-> a, b |-> b, ab |-> FALSE, ba |-> FALSE]
NextEqual == Equal \/ EqualSwapped
SpecEqual == InitEqual /\ [][NextEqual]_vars

(***************************************************************************)
(* Calls of injected host functions and `.` accesses to an injected host   *)
(* object whose host code may raise (tests/test_native.py: Person), each   *)
(* inside (try* ... (catch* e e)); the handle a read or a call returns is  *)
(* the object of the accesses that follow.                                 *)
(***************************************************************************)
MaxCallArgs == 2

\* Person.raise_error, Person.set_name as bound methods
HostFunctions ==
    { HostFunction("raise_error", <<>>,
                   HostRaise("ValueError", "this method always raises")),
      HostFunction("set_name", <<"name">>, HostReturn(None)) }
CallArgs == {MalInt(1), MalKeyword("name"), MalKeyword("given")}
CallArgLists == UNION {[1..n -> CallArgs] : n \in 0..MaxCallArgs}

\* Name(given="Donald", family="Duck")
NameObject ==
    HostObject("Name", [a \in {"given", "family"} |->
                           IF a = "given" THEN PyStr("Donald") ELSE PyStr("Duck")])

\* a Person: attributes of every kind, a property, a property whose getter
\* raises ValueError and one whose getter raises AttributeError, methods
BridgeObject ==
    [a \in {"count", "living", "height", "nickname", "spouse", "name", "friends",
            "formatted_name", "broken", "lazy", "raise_error", "get_name"} |->
        CASE a = "count" -> PyInt(7)
          [] a = "living" -> PyBool(TRUE)
          [] a = "height" -> PyFloat(18)
          [] a = "nickname" -> PyStr("Don")
          [] a = "spouse" -> None
          [] a = "name" -> NameObject
          [] a = "friends" -> HostList(<<NameObject>>)
          [] a = "formatted_name" -> HostProperty(HostReturn(PyStr("Donald Duck")))
          [] a = "broken" -> HostProperty(HostRaise("ValueError", "no name"))
          [] a = "lazy" -> HostProperty(HostRaise("AttributeError", "lazy"))
          [] a = "raise_error" ->
                HostFunction("raise_error", <<>>,
                             HostRaise("ValueError", "this method always raises"))
          [] a = "get_name" -> HostFunction("get_name", <<>>, HostReturn(NameObject))]
BridgeAttrs == DOMAIN BridgeObject \cup {"given", "family", "missing"}
BridgeWriteAttrs == {"count", "formatted_name", "missing"}
BridgePolicies ==
    { NoPolicy, Policy(EmptyDict),
      Policy(DictSet(EmptyDict, "Person", BridgeAttrs)),
      Policy(DictSet(EmptyDict, "Person", {"count"})),
      Policy(DictSet(DictSet(EmptyDict, "Person", {"name", "get_name", "friends"}),
                     "Name", {"given"})) }

NoHostException == HostException("", "")

\* fn.call(mal_args) for the bridged function fn, and what the host did
BridgeCallOf(fn, mal_args) ==
    LET c == CallArguments(mal_args, 1, <<>>, EmptyDict)
        r == HostCall(fn.native, c.args, c.kwargs)
        failed == c.st = "ok" /\ r.raises
    IN  [op |-> "call", what |-> <<fn.native.name, mal_args>>,
         out |-> MalFunctionPythonCall(fn.native, fn.restrictions, mal_args),
         failed |-> failed,
         exc |-> IF failed THEN r.exc ELSE NoHostException]

\* (f arg ...) for a host function f injected with the policy of the object
\* (Env.inject_native)
BridgeCall ==
    /\ pres.op = "none"
    /\ \E f \in HostFunctions, mal_args \in CallArgLists :
        pres' = BridgeCallOf(expression_from_native(f, handle.restrictions), mal_args)
    /\ UNCHANGED <<macro_table, notLib>>

\* ((. obj 'attr) arg ...): the call of the function the read has given
BridgeCallRead ==
    /\ pres.op = "dot" /\ pres.out.kind = "val" /\ pres.out.val.t = "pyfn"
    /\ \E mal_args \in CallArgLists : pres' = BridgeCallOf(pres.out.val, mal_args)
    /\ UNCHANGED <<macro_table, notLib>>

\* (. obj 'attr) and (. obj 'attr value)
BridgeDot ==
    /\ pres.op = "none"
    /\ \E attr \in BridgeAttrs, hasValue \in BOOLEAN, value \in DotValues :
        /\ IF hasValue THEN attr \in BridgeWriteAttrs ELSE value = MalInt(1)
        /\ LET r == MalDot(handle, hobj, attr, hasValue, value)
               h == IF hasValue THEN SetAttrHost(hobj, attr, expression_to_native(value))
                    ELSE GetAttrHost(hobj, attr)
               failed == r.st # "InvalidArgument" /\ h.raises
           IN  /\ hobj' = r.obj
               /\ pres' = [op |-> "dot", what |-> <<attr, hasValue, value>>,
                           out |-> CASE r.st = "ok" -> Val(r.val)
                                     [] r.st = "InvalidArgument" ->
                                            MalInvalidArgumentException(
                                                MalPythonObject(hobj, handle.restrictions),
                                                "Access restricted to attribute \""
                                                    \o attr \o "\"")
                                     [] r.st = "MalException" -> MalException(r.val)
                                     [] OTHER -> HostError(r.st),
                           failed |-> failed,
                           exc |-> IF failed THEN h.exc ELSE NoHostException]
    /\ UNCHANGED <<macro_table, handle, dres, envVars, clockVars, malVars, lispVars>>

\* stepA_mal.py EVAL, try*: `except MalException as e` binds e.native() and
\* evaluates the catch body e; any other exception goes on
BridgeCatch ==
    /\ pres.op \in {"call", "dot"}
    /\ pres' = IF pres.out.kind = "val" THEN [pres EXCEPT !.op = "returned"]
               ELSE IF pres.out.mal
               THEN [pres EXCEPT !.op = "caught", !.out = Val(pres.out.val)]
               ELSE [pres EXCEPT !.op = "escaped"]
    /\ UNCHANGED <<macro_table, notLib>>

\* the host converts the handle returned: MalPythonObject.to_expression
BridgeConvert ==
    /\ pres.op = "returned" /\ pres.out.val.t = "pyobj"
    /\ pres' = [pres EXCEPT !.op = "converted", !.out = Val(to_expression(pres.out.val))]
    /\ UNCHANGED <<macro_table, notLib>>

\* the handles to instances in a value: the value itself, or its elements
InstanceHandles(v) ==
    IF v.t = "pyobj" THEN (IF v.native.t = "object" THEN {v} ELSE {})
    ELSE IF v.t = "list"
    THEN {v.l[i] : i \in {j \in 1..Len(v.l) : v.l[j].t = "pyobj" /\ v.l[j].native.t = "object"}}
    ELSE {}

\* the accesses that follow go to an instance the last form has returned
BridgeFollow ==
    /\ pres.op \in {"returned", "converted"}
    /\ \E v \in InstanceHandles(pres.out.val) :
        /\ handle' = [type |-> v.native.type, restrictions |-> v.restrictions]
        /\ hobj' = v.native.attrs
    /\ pres' = NoCall
    /\ UNCHANGED <<macro_table, dres, envVars, clockVars, malVars, lispVars>>

\* the next form
BridgeNext ==
    /\ pres.op \in {"returned", "caught", "escaped", "converted"}
    /\ pres' = NoCall
    /\ UNCHANGED <<macro_table, notLib>>

InitBridge ==
    /\ EnvIdle /\ ClockIdle /\ MalIdle /\ LispIdle /\ LibIdle
    /\ hobj = BridgeObject
    /\ handle \in [type : {"Person"}, restrictions : BridgePolicies]
    /\ dres = NoDotResult
NextBridge ==
    \/ BridgeCall \/ BridgeCallRead \/ BridgeDot \/ BridgeCatch
    \/ BridgeConvert \/ BridgeFollow \/ BridgeNext
SpecBridge == InitBridge /\ [][NextBridge]_vars

(***************************************************************************)
(* Frames made with and without an execution limit, in any shape of chain, *)
(* and the limit checked and reset through any of them (lispy/env.py).     *)
(***************************************************************************)
\* The ExecutionLimit instances the host has made: limits[1] and limits[2].
HostLimits ==
    <<[time_limit |-> 1, start_time |-> 0], [time_limit |-> MaxLimit, start_time |-> 0]>>

\* Env(outer, binds, exprs, execution_limit): a root (outer None) as
\* init_repl_env makes it, or a child as let*, catch* (no binds) and the
\* application of a closure (binds and exprs) make it
FNew ==
    /\ Len(envs) < MaxEnvs
    /\ \E outer \in 0..Len(envs), execution_limit \in 0..Len(limits), hasBinds \in BOOLEAN :
        LET r == EnvInit(envs, outer, hasBinds, <<>>, <<>>, execution_limit)
        IN  /\ envs' = r.heap
            /\ eres' = [NoEnvResult EXCEPT !.op = "new", !.st = r.st, !.env = r.id,
                           !.loc = outer, !.limit = execution_limit]
    /\ UNCHANGED <<lenvs, notEnv>>

\* env.check_execution_limit()
FCheck ==
    /\ \E e \in 1..Len(envs) :
        eres' = [NoEnvResult EXCEPT !.op = "check", !.env = e,
                    !.st = IF EnvCheckExecutionLimit(envs, limits, e, now)
                           THEN "MalExecutionLimitError" ELSE "ok"]
    /\ UNCHANGED <<envs, lenvs, notEnv>>

\* env.reset_execution_limit()
FReset ==
    /\ \E e \in 1..Len(envs) :
        /\ limits' = EnvResetExecutionLimit(envs, limits, e, now)
        /\ eres' = [NoEnvResult EXCEPT !.op = "reset", !.env = e]
    /\ UNCHANGED <<envs, lenvs, now, steps, dotVars, malVars, lispVars, libVars>>

\* time passes
FTick ==
    /\ now < MaxLimit
    /\ now' = now + 1
    /\ eres' = [NoEnvResult EXCEPT !.op = "tick"]
    /\ UNCHANGED <<envs, lenvs, limits, steps, dotVars, malVars, lispVars, libVars>>

InitChain ==
    /\ EnvIdle /\ DotIdle /\ MalIdle /\ LispIdle /\ LibIdle
    /\ now = 0 /\ steps = 0 /\ limits = HostLimits
NextChain == FNew \/ FCheck \/ FReset \/ FTick
SpecChain == InitChain /\ [][NextChain]_vars

(***************************************************************************)
(* The `if` form in both evaluators: one (if test conseq alt) per run, the *)
(* test ranging over the values that Python or MAL could take for false.   *)
(***************************************************************************)
\* test expressions of the MAL programs: each evaluates to itself, the
\* unbound symbol raises
IfTestsMal ==
    {MalNil, MalBoolean(FALSE), MalBoolean(TRUE), MalInt(0), MalInt(3),
     MalString(""), MalString("a"), MalList(<<>>), MalSymbol("u")}

\* (if test (def! c 1) (def! a 2)), the alternate present or not
IfProgramMal(test, hasAlt) ==
    LET S(x) == MalSymbol(x)
        L(x) == MalList(x)
        conseq == L(<<S("def!"), S("c"), MalInt(1)>>)
        alt == L(<<S("def!"), S("a"), MalInt(2)>>)
    IN  << L(<<S("if"), test, conseq>> \o (IF hasAlt THEN <<alt>> ELSE <<>>)) >>

\* test expressions of the lispy.py programs, as the parser hands them on
IfTestsLisp ==
    {None, PyBool(FALSE), PyBool(TRUE), PyInt(0), PyInt(3), PyStr(""), PyStr("a"),
     PyList(<<Symbol("quote"), PyList(<<>>)>>), Symbol("u")}

\* (if test (begin (define c 1) 1) (begin (define a 2) 2)) after expand,
\* which has put None where the alternate was absent
IfProgramLisp(test, hasAlt) ==
    LET S(x) == Symbol(x)
        L(x) == PyList(x)
        conseq == L(<<S("begin"), L(<<S("define"), S("c"), PyInt(1)>>), PyInt(1)>>)
        alt == L(<<S("begin"), L(<<S("define"), S("a"), PyInt(2)>>), PyInt(2)>>)
    IN  << L(<<S("if"), test, conseq, IF hasAlt THEN alt ELSE None>>) >>

\* the value the test expression of a program evaluates to
IfTestValue(test) ==
    IF test.t = "list" /\ Len(test.l) = 2 THEN test.l[2] ELSE test

InitIf ==
    /\ eres = NoEnvResult /\ DotIdle /\ ClockIdle /\ LibIdle
    /\ envs = init_repl_env(0) /\ mfns = CoreFunctions
    /\ mstack = <<>> /\ mret = Idle /\ mresults = <<>> /\ mcaught = {}
    /\ lenvs = global_env
    /\ lprocs = <<>> /\ lballs = <<>> /\ lstack = <<>> /\ lret = LIdle
    /\ lresults = <<>> /\ llimit = 0
    /\ \E hasAlt \in BOOLEAN :
        \/ /\ lprog = <<>>
           /\ \E test \in IfTestsMal : mprog = IfProgramMal(test, hasAlt)
        \/ /\ mprog = <<>>
           /\ \E test \in IfTestsLisp : lprog = IfProgramLisp(test, hasAlt)
NextIf ==
    \/ M_Request \/ M_Iter \/ M_Resume \/ M_Unwind \/ M_Finish
    \/ L_Load \/ L_Iter \/ L_Resume \/ L_Unwind \/ L_Finish
SpecIf == InitIf /\ [][NextIf]_vars

(***************************************************************************)
(* try* around protected expressions that raise, one for each way the      *)
(* evaluator and the core functions have of raising.                       *)
(***************************************************************************)
\* the protected expressions, by the kind of error the call ends with
TryRaising ==
    LET S(x) == MalSymbol(x)
        L(x) == MalList(x)
    IN  [UnboundSymbol |-> S("u"),
         InvalidArgument |-> L(<<S("cons"), MalInt(1), MalInt(2)>>),
         NotAFunction |-> L(<<MalInt(1), MalInt(2)>>),
         TooFewCore |-> L(<<S("+"), MalInt(1)>>),
         TooFewClosure |-> L(<<L(<<S("fn*"), L(<<S("a"), S("b")>>), S("a")>>), MalInt(1)>>),
         IndexOutOfBounds |-> L(<<S("nth"), L(<<S("list"), MalInt(1)>>), MalInt(5)>>),
         IndexBelow |-> L(<<S("nth"), L(<<S("list"), MalInt(1)>>), MalInt(-5)>>),
         WrongType |-> L(<<S("+"), MalInt(1), MalString("a")>>),
         UserThrow |-> L(<<S("throw"), MalInt(2)>>)]
TryKinds == DOMAIN TryRaising

\* the value each of the errors carries (MalException.native())
TryCarried ==
    [UnboundSymbol |-> MalString("'u' not found"),
     InvalidArgument |-> MalString("2: invalid argument: not a list or vector"),
     NotAFunction |-> MalString("1: invalid argument: not a function"),
     TooFewCore |-> MalString("not enough arguments"),
     TooFewClosure |-> MalNil,
     IndexOutOfBounds |-> MalString("Index out of bounds: 5"),
     IndexBelow |-> MalNil,
     WrongType |-> MalNil,
     UserThrow |-> MalInt(2)]

\* (try* A (catch* e (list e))), then (try* (do 1 A) (catch* e e))
RaisingProgram(kind) ==
    LET S(x) == MalSymbol(x)
        L(x) == MalList(x)
        A == TryRaising[kind]
    IN  << L(<<S("try*"), A, L(<<S("catch*"), S("e"), L(<<S("list"), S("e")>>)>>)>>),
           L(<<S("try*"), L(<<S("do"), MalInt(1), A>>), L(<<S("catch*"), S("e"), S("e")>>)>>) >>

InitTry ==
    /\ lenvs = <<>> /\ eres = NoEnvResult /\ DotIdle /\ ClockIdle /\ LispIdle /\ LibIdle
    /\ envs = init_repl_env(0)
    /\ mfns = CoreFunctions
    /\ mstack = <<>> /\ mret = Idle /\ mresults = <<>> /\ mcaught = {}
    /\ \E kind \in TryKinds : mprog = RaisingProgram(kind)
NextTry == M_Request \/ M_Iter \/ M_Resume \/ M_Unwind \/ M_Finish
SpecTry == InitTry /\ [][NextTry]_vars

(***************************************************************************)
(* The host hands forms to lispy.py one after another (eval(parse(text))): *)
(* each is expanded with the macro table as it stands and the expansion    *)
(* evaluated.  lprog is the sequence of forms handed in so far.            *)
(***************************************************************************)
MaxLoads == 4

\* (define-macro name (lambda args (quote k)))
ConstantMacro(name, k) ==
    PyList(<<Symbol("define-macro"), Symbol(name),
             PyList(<<Symbol("lambda"), Symbol("args"),
                      PyList(<<Symbol("quote"), PyInt(k)>>)>>)>>)
\* (define name (lambda () body))
DefineThunk(name, body) ==
    PyList(<<Symbol("define"), Symbol(name),
             PyList(<<Symbol("lambda"), PyList(<<>>), body>>)>>)
\* (m) and (unless #f 5)
CallM == PyList(<<Symbol("m")>>)
CallUnless == PyList(<<Symbol("unless"), PyBool(FALSE), PyInt(5)>>)
\* (list (f) (m)) and (list (g) (unless #f 5))
BothM == PyList(<<Symbol("list"), PyList(<<Symbol("f")>>), CallM>>)
BothUnless == PyList(<<Symbol("list"), PyList(<<Symbol("g")>>), CallUnless>>)

RedefineForms ==
    { ConstantMacro("m", 1), ConstantMacro("m", 2), DefineThunk("f", CallM), BothM,
      ConstantMacro("unless", 3), DefineThunk("g", CallUnless), BothUnless }

\* parse(text), which expands at top level, and the start of eval; an
\* exception of expand is the outcome of the request
R_Load ==
    /\ lstack = <<>> /\ lret.kind = "idle"
    /\ Len(lprog) < MaxLoads
    /\ \E x \in RedefineForms :
        LET r == expand(x, TRUE, macro_table)
        IN  /\ lprog' = Append(lprog, x)
            /\ macro_table' = r.mt
            /\ pres' = [op |-> "expand", x |-> x, toplevel |-> TRUE,
                        st |-> r.st, val |-> r.val, before |-> macro_table]
            /\ IF r.st = "ok"
               THEN lstack' = <<LFrame(r.val, 1)>> /\ lret' = LRunning
               ELSE lstack' = <<>> /\ lret' = LExc(r.st)
    /\ UNCHANGED <<lprocs, lballs, lresults, llimit, envVars, dotVars, clockVars, malVars>>

InitRedefine ==
    /\ EnvIdleMal /\ DotIdle /\ ClockIdle /\ MalIdle /\ LibIdle
    /\ lenvs = global_env
    /\ lprocs = <<>> /\ lballs = <<>> /\ lstack = <<>> /\ lret = LIdle
    /\ lresults = <<>> /\ llimit = 0
    /\ lprog = <<>>
NextRedefine == R_Load \/ L_Iter \/ L_Resume \/ L_Unwind \/ L_Finish
SpecRedefine == InitRedefine /\ [][NextRedefine]_vars

(***************************************************************************)
(* A sequence of requests to one lispy.py interpreter, some by load with a *)
(* limit, some by load without, some by eval; the clock runs during all of *)
(* them.                                                                   *)
(***************************************************************************)
\* eval(parse(expressions)) called by the host: self.limit is left as it is
L_Eval ==
    /\ lstack = <<>> /\ lret.kind = "idle"
    /\ Len(lresults) < Len(lprog)
    /\ lstack' = <<LFrame(lprog[Len(lresults) + 1], 1)>>
    /\ lret' = LRunning
    /\ UNCHANGED <<lenvs, lprocs, lballs, lprog, lresults, llimit, clockVars, notLisp>>

\* time passes while a request without a limit is evaluated; readings
\* later than one unit past every deadline are all alike
L_TickFree ==
    /\ lstack # <<>>
    /\ llimit = 0
    /\ \E i \in 1..Len(limits) : now < limits[i].start_time + limits[i].time_limit + 1
    /\ now' = now + 1
    /\ steps' = 0
    /\ UNCHANGED <<limits, lenvs, lispVars, notLisp>>

\* the endless procedure defined and called, then a constant
LoopThenProgram == LoopLispProgram \o <<PyInt(7)>>

InitLoads ==
    /\ EnvIdleMal /\ DotIdle /\ ClockIdle /\ MalIdle /\ LibIdle
    /\ lenvs = global_env
    /\ lprocs = <<>> /\ lballs = <<>> /\ lstack = <<>> /\ lret = LIdle
    /\ lresults = <<>> /\ llimit = 0
    /\ lprog \in {LoopThenProgram, SubSeq(TwiceProgram, 1, 3)}
NextLoads ==
    \/ L_LoadLimited \/ L_Eval \/ L_IterTimed \/ L_Resume \/ L_Unwind \/ L_Finish
    \/ L_Tick \/ L_TickFree
SpecLoads == InitLoads /\ [][NextLoads]_vars

(***************************************************************************)
(* set! in lispy.py: the account of tests/test_lispy.py, a procedure that  *)
(* keeps its balance in the frame of the call that made it.                *)
(***************************************************************************)
\* (define ((account bal) amt) (set! bal (+ bal amt)) bal), as read
AccountSource ==
    LET S(x) == Symbol(x)
        L(x) == PyList(x)
    IN  L(<<S("define"), L(<<L(<<S("account"), S("bal")>>), S("amt")>>),
            L(<<S("set!"), S("bal"), L(<<S("+"), S("bal"), S("amt")>>)>>),
            S("bal")>>)

\* the account opened with 100 and called with 0, amt, amt; with or without
\* a global variable of the name of the balance; then the global looked
\* up, and a variable set that no frame binds, alone and as an argument
AccountProgram(shadow, amt) ==
    LET S(x) == Symbol(x)
        L(x) == PyList(x)
    IN  (IF shadow THEN << L(<<S("define"), S("bal"), PyInt(5)>>) >> ELSE <<>>)
        \o << expand(AccountSource, TRUE, InitialMacroTable).val,
              L(<<S("define"), S("a1"), L(<<S("account"), PyInt(100)>>)>>),
              L(<<S("a1"), PyInt(0)>>),
              L(<<S("a1"), PyInt(amt)>>),
              L(<<S("a1"), PyInt(amt)>>),
              S("bal"),
              L(<<S("set!"), S("undefined"), PyInt(1)>>),
              L(<<S("+"), PyInt(1), L(<<S("set!"), S("undefined"), PyInt(1)>>)>>),
              S("undefined") >>

InitSet ==
    /\ EnvIdleMal /\ DotIdle /\ ClockIdle /\ MalIdle /\ LibIdle
    /\ lenvs = global_env
    /\ lprocs = <<>> /\ lballs = <<>> /\ lstack = <<>> /\ lret = LIdle
    /\ lresults = <<>> /\ llimit = 0
    /\ \E shadow \in BOOLEAN, amt \in {1, 10} : lprog = AccountProgram(shadow, amt)
NextSet == L_Load \/ L_Iter \/ L_Resume \/ L_Unwind \/ L_Finish
SpecSet == InitSet /\ [][NextSet]_vars

(***************************************************************************)
(* defmacro! of a function that has a name already.                        *)
(***************************************************************************)
\* f is defined and called, m is made a macro out of f (alias) or out of a
\* function of its own, then f, m and a further name of m are called; the
\* function wraps its argument in a quotation, the argument is unbound
AliasProgram(alias) ==
    LET S(x) == MalSymbol(x)
        L(x) == MalList(x)
        fn == L(<<S("fn*"), L(<<S("x")>>), L(<<S("list"), L(<<S("quote"), S("quote")>>), S("x")>>)>>)
    IN  << L(<<S("def!"), S("f"), fn>>),
           L(<<S("f"), S("u")>>),
           L(<<S("defmacro!"), S("m"), IF alias THEN S("f") ELSE fn>>),
           L(<<S("f"), S("u")>>),
           L(<<S("m"), S("u")>>),
           L(<<S("def!"), S("h"), S("m")>>),
           L(<<S("h"), S("u")>>),
           L(<<S("def!"), S("m"), S("m")>>),
           L(<<S("m"), S("u")>>) >>

InitAlias ==
    /\ lenvs = <<>> /\ eres = NoEnvResult /\ DotIdle /\ ClockIdle /\ LispIdle /\ LibIdle
    /\ envs = init_repl_env(0)
    /\ mfns = CoreFunctions
    /\ mstack = <<>> /\ mret = Idle /\ mresults = <<>> /\ mcaught = {}
    /\ \E alias \in BOOLEAN : mprog = AliasProgram(alias)
NextAlias == M_Request \/ M_Iter \/ M_Resume \/ M_Unwind \/ M_Finish
SpecAlias == InitAlias /\ [][NextAlias]_vars

(***************************************************************************)
(* Claims about environments.                                              *)
(***************************************************************************)
\* The frames from e outward, innermost first.
RECURSIVE ChainOf(_, _)
ChainOf(h, e) == IF e = 0 THEN <<>> ELSE <<e>> \o ChainOf(h, h[e].outer)

\* Positions of the chain whose frame binds key.
Binders(h, c, key) == {i \in 1..Len(c) : key \in DOMAIN h[c[i]].data}
MinOf(S) == CHOOSE m \in S : \A n \in S : m <= n

HasRest(binds) == \E i \in 1..Len(binds) : isSymbol(binds[i]) /\ binds[i].s = "&"
C10_ArityMismatchFails ==
    (/\ eres.op \in {"new", "lnew"}
     /\ eres.key # "single"
     /\ ~HasRest(eres.binds)
     /\ Len(eres.binds) # Len(eres.exprs)) => eres.st # "ok"

\* binds is p1 .. pk & r with k + 1 different names, none of them "&" but
\* the marker
RestShape(binds, k) ==
    /\ Len(binds) = k + 2
    /\ \A i \in 1..Len(binds) : isSymbol(binds[i])
    /\ binds[k + 1].s = "&"
    /\ \A i \in (1..k) \cup {k + 2} : binds[i].s # "&"
    /\ \A i, j \in (1..k) \cup {k + 2} : i # j => binds[i].s # binds[j].s

\* C11: for parameters p1 .. pk & r and n >= k arguments the new frame binds
\* each pi to the i-th argument and r to the List of the arguments after the
\* k-th, in order (the empty List when n = k), and binds nothing else.
C11_RestBinding ==
    \A k \in 0..MaxArgs :
        (/\ eres.op = "new"
         /\ RestShape(eres.binds, k)
         /\ Len(eres.exprs) >= k) =>
            /\ eres.st = "ok"
            /\ DOMAIN envs[eres.env].data = {eres.binds[i].s : i \in (1..k) \cup {k + 2}}
            /\ \A i \in 1..k : envs[eres.env].data[eres.binds[i].s] = eres.exprs[i]
            /\ envs[eres.env].data[eres.binds[k + 2].s] =
                   MalList([j \in 1..(Len(eres.exprs) - k) |-> eres.exprs[k + j]])

\* two parameters and the rest, bound from three arguments; and before it the
\* case n = k is covered by every list of two arguments
C11_Witness ==
    /\ eres.op = "new" /\ eres.st = "ok"
    /\ RestShape(eres.binds, 2)
    /\ Len(eres.exprs) = 3
    /\ envs[eres.env].data["c"] = MalList(<<eres.exprs[3]>>)

(***************************************************************************)
(* Claims about the MAL evaluator.                                         *)
(***************************************************************************)
\* The outcome of the request that finished last, or is about to finish.
LastOutcome == IF mret.kind = "idle" THEN mresults[Len(mresults)] ELSE mret
RequestOver == mstack = <<>> /\ mret.kind # "run" /\ (mret.kind = "idle" => mresults # <<>>)

C4_TailCallsDoNotNest ==
    \A n \in 0..MaxN :
        mprog = SumProgram(n) =>
            /\ Len(mstack) <= 3
            /\ Len(mresults) = 2 => mresults[2] = Val(MalInt((n * (n + 1)) \div 2))

\* (f MaxN 0) has returned, after MaxN + 1 frames for f's parameters
C4_Witness ==
    /\ mprog = SumProgram(MaxN)
    /\ Len(mresults) = 2
    /\ mresults[2].kind = "val"
    /\ Cardinality({e \in 1..Len(envs) : "acc" \in DOMAIN envs[e].data}) = MaxN + 1

\* the frames in which a step of the evaluator binds names: the new frame of
\* a closure application, of catch*, of let*; the let* frame for a binding
BindsInChild ==
    \/ Len(envs') > Len(envs)
    \/ mstack # <<>> /\ mret.kind = "val" /\ mstack[Len(mstack)].pc = "let"
ChildFrames ==
    (Len(envs) + 1 .. Len(envs')) \cup
    (IF mstack # <<>> /\ mret.kind = "val" /\ mstack[Len(mstack)].pc = "let"
     THEN {mstack[Len(mstack)].aux} ELSE {})

\* C9: binding a name in a child frame (let*, closure parameter, catch*)
\* changes no other frame, so no ancestor's binding; in the shadowing program
\* the inner forms see the inner values and x is 1 in the root frame before,
\* during and after them.
C9_ShadowingKeepsOuter ==
    [][ /\ BindsInChild =>
            \A e \in 1..Len(envs) : e \notin ChildFrames => envs'[e] = envs[e]
        /\ \A v \in 2..MaxN :
            mprog' = ShadowProgram(v) =>
                /\ Len(mresults') >= 1 => envs'[1].data["x"] = MalInt(1)
                /\ Len(mresults') >= 2 =>
                     mresults'[2] = Val(MalList(<<MalInt(v), MalInt(v + 1),
                                                  MalInt(v + 2), MalInt(1)>>))
                /\ Len(mresults') >= 3 => mresults'[3] = Val(MalInt(1))
      ]_vars

\* x is bound to different values in the root frame and in three children
C9_Witness ==
    /\ \E v \in 2..MaxN : mprog = ShadowProgram(v)
    /\ Len(mresults) = 3
    /\ Cardinality({e \in 2..Len(envs) :
                      /\ "x" \in DOMAIN envs[e].data
                      /\ envs[e].data["x"] # envs[1].data["x"]
                      /\ envs[e].outer = 1}) = 3

\* What the elements of a quasiquoted list contribute to its value when L
\* is bound to v: a literal itself, (unquote L) the value v as one element,
\* (splice-unquote L) the elements of v
RECURSIVE Contributions(_, _)
Contributions(elems, v) ==
    IF elems = <<>> THEN <<>>
    ELSE LET e == Head(elems)
             rest == Contributions(Tail(elems), v)
         IN  IF e = MalList(<<MalSymbol("unquote"), MalSymbol("L")>>) THEN <<v>> \o rest
             ELSE IF e = MalList(<<MalSymbol("splice-unquote"), MalSymbol("L")>>)
             THEN v.l \o rest
             ELSE <<e>> \o rest

\* C13: quasiquote expands by its four cases, so that the value of a
\* quasiquoted list holds its quoted elements literally, the value of each
\* unquoted expression as one element and the elements of each spliced list
\* in order: with L = (1 2 3), `(a ,@L b) is (a 1 2 3 b) and `(a ,L b) is
\* (a (1 2 3) b).
C13_QuasiquoteValue ==
    (/\ Len(mprog) = 2 /\ Len(mresults) = 2
     /\ isList(mprog[2]) /\ mprog[2].l[1] = MalSymbol("quasiquote")) =>
        mresults[2] = Val(MalList(Contributions(mprog[2].l[2].l,
                                                MalList(<<MalInt(1), MalInt(2), MalInt(3)>>))))

\* a literal and a spliced list evaluated: (a 1 2 3)
C13_Witness ==
    /\ mprog = QuasiProgram(<<MalSymbol("a"),
                              MalList(<<MalSymbol("splice-unquote"), MalSymbol("L")>>)>>)
    /\ Len(mresults) = 2
    /\ mresults[2] = Val(MalList(<<MalSymbol("a"), MalInt(1), MalInt(2), MalInt(3)>>))

\* C14: a splice-unquote form that is itself the quasiquoted expression, as
\* in `,@L, is rejected with a Syntax error instead of being expanded or
\* evaluated.
C14_TopSpliceRejected ==
    \A i \in 1..Len(mresults) :
        (/\ isList(mprog[i]) /\ Len(mprog[i].l) = 2
         /\ mprog[i].l[1] = MalSymbol("quasiquote")
         /\ isList(mprog[i].l[2]) /\ Len(mprog[i].l[2].l) = 2
         /\ mprog[i].l[2].l[1] = MalSymbol("splice-unquote")) =>
            (mresults[i].kind = "exc" /\ mresults[i].cls = "MalSyntaxException")

\* a defmacro! form occurs in the form, at any depth
RECURSIVE MentionsDefmacro(_)
MentionsDefmacro(form) ==
    /\ isList(form) /\ Len(form.l) > 0
    /\ \/ form.l[1] = MalSymbol("defmacro!")
       \/ \E i \in 1..Len(form.l) : MentionsDefmacro(form.l[i])
\* a defmacro! form occurs in the form, but is not the form
NestedDefmacro(form) ==
    MentionsDefmacro(form) /\ form.l[1] # MalSymbol("defmacro!")

\* C16: a macro definition that is not at top level (in a branch of `if`, in
\* the body of a function) is rejected with a Syntax error and defines no
\* macro: a program without top-level definitions never has a macro.
C16_NestedMacroRejected ==
    /\ \A i \in 1..Len(mresults) :
           NestedDefmacro(mprog[i]) =>
               (mresults[i].kind = "exc" /\ mresults[i].cls = "MalSyntaxException")
    /\ (\A i \in 1..Len(mprog) : isList(mprog[i]) => mprog[i].l[1] # MalSymbol("defmacro!")) =>
           \A id \in 1..Len(mfns) : ~mfns[id].is_macro

\* the value of an expression of TryExprs: a constant, or (list c1 .. cn)
TryValue(x) == IF isList(x) THEN MalList(Tail(x.l)) ELSE x

\* C17: (try* A (catch* e B)) gives A's value without evaluating B when A
\* raises nothing; when A raises an Exception carrying v, B is evaluated in
\* a new child frame that binds e to exactly v, and the frame of the try*
\* gets no binding for e; (try* A) hands the Exception of A on unchanged.
C17_TryCatch ==
    \A x \in TryExprs :
        mprog = TryProgram(x) =>
            LET v == TryValue(x)
                expected ==
                    << Val(MalList(<<v>>)), Val(MalList(<<v, v>>)), MalException(v),
                       Val(v), MalUnknownSymbolException("e") >>
            IN  /\ \A i \in 1..Len(mresults) : mresults[i] = expected[i]
                \* no catch* body begins, no frame is made, while A raises nothing
                /\ Len(mresults) = 0 => (mcaught = {} /\ Len(envs) = 1)
                \* every frame made binds e to v and nothing else, under the root
                /\ \A id \in 2..Len(envs) :
                       /\ envs[id].outer = 1
                       /\ DOMAIN envs[id].data = {"e"}
                       /\ envs[id].data["e"] = v
                /\ "e" \notin DOMAIN envs[1].data

\* the thrown list (1 2) was caught, bound and returned twice, then thrown
\* again through a try* without catch*
C17_Witness ==
    /\ mprog = TryProgram(MalList(<<MalSymbol("list"), MalInt(1), MalInt(2)>>))
    /\ Len(mresults) = 3 /\ Len(envs) = 2
    /\ mresults[2] = Val(MalList(<<MalList(<<MalInt(1), MalInt(2)>>),
                                   MalList(<<MalInt(1), MalInt(2)>>)>>))
    /\ mresults[3] = MalException(MalList(<<MalInt(1), MalInt(2)>>))

(***************************************************************************)
(* Claims about the lispy.py evaluator.                                    *)
(***************************************************************************)
\* An Escape is on its way up the stack.
EscapeInFlight == lstack # <<>> /\ lret.kind = "exc" /\ lret.cls = "Escape"
\* The balls of the callcc invocations that are active.
ActiveBalls == {lstack[i].ball : i \in {j \in 1..Len(lstack) : lstack[j].kind = "callcc"}}
LoopDefined == lprog = LoopLispProgram /\ Len(lresults) >= 1 /\ lresults[1].kind = "val"

C5_EscapeReturnsValue ==
    [][ /\ (EscapeInFlight /\ lret.ball \in ActiveBalls) =>
              /\ lstack' = Front(lstack)
              /\ lenvs' = lenvs
              /\ IF lstack[Len(lstack)].kind = "callcc"
                    /\ lstack[Len(lstack)].ball = lret.ball
                 THEN lret' = LVal(lballs[lret.ball].retval)
                 ELSE lret' = lret
        /\ \A invoke \in BOOLEAN, v \in 1..MaxN :
            lprog' = CallccProgram(invoke, v) =>
                /\ Len(lresults') >= 2 =>
                     lresults'[2] = LVal(PyInt(IF invoke THEN v ELSE 7))
                /\ Len(lresults') >= 3 =>
                     lresults'[3] = LVal(PyInt(IF invoke THEN 0 ELSE 1))
      ]_vars

\* the continuation was invoked with MaxN, call/cc returned MaxN and hit is 0
C5_Witness ==
    /\ lprog = CallccProgram(TRUE, MaxN)
    /\ Len(lresults) = 3
    /\ lresults[2] = LVal(PyInt(MaxN))
    /\ lballs = <<[retval |-> PyInt(MaxN)]>>

\* C6: an escape is caught only by the callcc invocation that made its
\* ball: a callcc that an Escape reaches returns a value only for its own
\* ball and lets every other Escape pass unchanged; in the nested programs
\* the outer continuation makes the outer call/cc return v, the inner one
\* makes only the inner call/cc return.
C6_CaughtByOwnCallcc ==
    [][ /\ (EscapeInFlight /\ lstack[Len(lstack)].kind = "callcc") =>
              IF lstack[Len(lstack)].ball = lret.ball
              THEN lret'.kind = "val"
              ELSE lret' = lret /\ lstack' = Front(lstack)
        /\ \A which \in {"throw", "escape", "none"}, v \in 1..MaxN :
            (lprog' = NestedProgram(which, v) /\ Len(lresults') = 1) =>
                lresults'[1] = LVal(PyInt(CASE which = "throw" -> v
                                            [] which = "escape" -> 5 + 10 * v
                                            [] which = "none" -> 5 + 1000 * v))
      ]_vars

\* the outer continuation was invoked inside the inner call/cc: two balls,
\* the outer one carries the value, the inner one none
C6_Witness ==
    /\ lprog = NestedProgram("throw", MaxN)
    /\ lresults = <<LVal(PyInt(MaxN))>>
    /\ lballs = <<[retval |-> PyInt(MaxN)], [retval |-> None]>>

\* C7: a continuation invoked after its call/cc has returned makes no
\* call/cc return: its Escape goes up through every active call unchanged
\* and is handed to the host as the outcome of the load; nothing after the
\* invocation is evaluated.
C7_StaleEscapeFails ==
    [][ /\ (EscapeInFlight /\ lret.ball \notin ActiveBalls) =>
              lret' = lret /\ lstack' = Front(lstack) /\ lenvs' = lenvs
        /\ (lstack = <<>> /\ lret.kind = "exc" /\ lret.cls = "Escape") =>
              lresults' = Append(lresults, lret)
        /\ \A active \in BOOLEAN, v \in 1..MaxN :
            lprog' = StaleProgram(active, v) =>
                /\ Len(lresults') >= 4 => lresults'[4] = Escape(1)
                /\ Len(lresults') >= 5 => lresults'[5] = LVal(PyInt(0))
      ]_vars

\* the stale continuation was invoked while another call/cc was active
C7_Witness ==
    /\ lprog = StaleProgram(TRUE, MaxN)
    /\ Len(lresults) = 5
    /\ lresults[4] = Escape(1)
    /\ Len(lballs) = 2
    /\ lballs[1].retval = PyInt(MaxN)

(***************************************************************************)
(* Claims about lispy.py's expansion.                                      *)
(***************************************************************************)
\* C12: expanding a form that expand returned, under the macro table the
\* first call left behind, succeeds and gives the same form again:
\* expand(expand(x)) = expand(x).
C12_ExpandIdempotent ==
    pres.op = "again" => (pres.st = "ok" /\ pres.val = pres.x)

\* an element of a binding list that is a 2-element list naming a symbol
WellFormedBinding(b) == b.t = "list" /\ Len(b.l) = 2 /\ b.l[1].t = "sym"

\* ((lambda (names) body ..) initializers ..) for the let form x
LambdaApplication(x) ==
    LET bs == x.l[2].l
    IN  PyList(<<PyList(<<Symbol("lambda"), PyList([i \in 1..Len(bs) |-> bs[i].l[1]])>>
                        \o SubSeq(x.l, 3, Len(x.l)))>>
               \o [i \in 1..Len(bs) |-> bs[i].l[2]])

\* C15: a let form with a binding list and at least one body form expands,
\* when every element of the list is a 2-element list naming a symbol (the
\* list may be empty), as the application of the lambda over the names with
\* the body forms to the initializers in order does; otherwise the expansion
\* fails with a Syntax error and has defined nothing.
C15_LetExpansion ==
    (/\ pres.op = "expand"
     /\ pres.x.t = "list" /\ Len(pres.x.l) >= 3
     /\ pres.x.l[1] = Symbol("let") /\ pres.x.l[2].t = "list") =>
        IF \A i \in 1..Len(pres.x.l[2].l) : WellFormedBinding(pres.x.l[2].l[i])
        THEN /\ pres.st = "ok"
             /\ pres.val = expand(LambdaApplication(pres.x), pres.toplevel, pres.before).val
        ELSE pres.st = "SyntaxError" /\ macro_table = pres.before

(***************************************************************************)
(* Claims about the reader and the printer.                                *)
(***************************************************************************)
\* C18: for every value v that read produces from a literal, reading the
\* readable text of v succeeds and gives v again: read(print(v)) = v, also
\* for strings that hold backslashes, newlines and double quotes.
C18_ReadPrintRoundTrip ==
    pres.op = "reread" => (pres.st = "ok" /\ pres.val = pres.of)

\* a list holding the string \, newline, " and an empty vector, read back
C18_Witness ==
    /\ pres.op = "reread" /\ pres.st = "ok"
    /\ pres.of = MalList(<<MalString(<<"\\", "\n", "\"">>), MalVector(<<>>)>>)
    /\ pres.x = <<"(", "\"", "\\", "\\", "\\", "n", "\\", "\"", "\"", " ", "[", "]", ")">>

(***************************************************************************)
(* Claims about equality.                                                  *)
(***************************************************************************)
\* v with every vector in it made a list
RECURSIVE AsLists(_)
AsLists(v) ==
    IF v.t \in {"list", "vec"}
    THEN MalList([i \in 1..Len(v.l) |-> AsLists(v.l[i])])
    ELSE v

\* C19: a List and a Vector are equal exactly when they have the same
\* length and their elements are equal pair by pair, whichever of the two
\* comes first, and the same holds of the lists and vectors nested in them:
\* they are equal exactly when they differ in nothing but the kind of their
\* sequences.  The empty vector equals the empty list.
C19_ListVectorEquality ==
    (pres.op = "swapped" /\ {pres.a.t, pres.b.t} = {"list", "vec"}) =>
        /\ pres.ab = pres.ba
        /\ pres.ab = (/\ Len(pres.a.l) = Len(pres.b.l)
                      /\ \A i \in 1..Len(pres.a.l) : MalEq(pres.a.l[i], pres.b.l[i]))
        /\ pres.ab = (AsLists(pres.a) = AsLists(pres.b))
        /\ (pres.a.l = <<>> /\ pres.b.l = <<>>) => pres.ab

\* the vector [[1] ([1])] found equal to the list ([1] ([1])), both ways
C19_Witness ==
    /\ pres.op = "swapped" /\ pres.ab /\ pres.ba
    /\ pres.a = MalVector(<<MalVector(<<MalInt(1)>>), MalList(<<MalVector(<<MalInt(1)>>)>>)>>)
    /\ pres.b = MalList(<<MalVector(<<MalInt(1)>>), MalList(<<MalVector(<<MalInt(1)>>)>>)>>)

(***************************************************************************)
(* Claims about the native bridge.                                         *)
(***************************************************************************)
\* The allow-list the policy gives the type (none when it has no entry).
AllowList(p, ty) == IF ty \in DOMAIN p.map THEN p.map[ty] ELSE {}

\* C1 as stated: under a handle constructed with a policy (any dict, the
\* empty one included) an access to an attribute outside the allow-list of
\* the object's type fails with InvalidArgument and leaves the host object
\* unchanged, an attribute inside it is accessed, and a handle without a
\* policy permits every attribute.
C1_PolicyEnforced ==
    dres.op = "dot" =>
        IF handle.restrictions.some
           /\ dres.attr \notin AllowList(handle.restrictions, handle.type)
        THEN dres.st = "InvalidArgument" /\ hobj = dres.before
        ELSE dres.st = "ok"

\* the String a wrapped host exception carries
Descriptive(e) == MalString("'" \o Repr(e) \o "' raised from python")

\* C20: when host code fails during a call of a host function or during a
\* `.` access, what comes out of the bridge is a MalException whose value is
\* a String describing the host exception, and try*/catch* binds that
\* String; whatever the bridge raises is a language exception carrying a
\* String, never a host error.
C20_HostFailuresWrapped ==
    /\ (pres.op \in {"call", "dot"} /\ pres.failed) =>
            /\ pres.out.kind = "exc" /\ pres.out.mal
            /\ pres.out.cls = "MalException"
            /\ pres.out.val = Descriptive(pres.exc)
    /\ (pres.op \in {"call", "dot"} /\ pres.out.kind = "exc") =>
            pres.out.mal /\ pres.out.val.t = "str"
    /\ (pres.op \in {"returned", "caught", "escaped"} /\ pres.failed) =>
            pres.op = "caught" /\ pres.out = Val(Descriptive(pres.exc))
    /\ pres.op # "escaped"

\* (raise_error) has failed with ValueError and catch* has bound the String
C20_Witness ==
    /\ pres.op = "caught" /\ pres.failed
    /\ pres.what = <<"raise_error", <<>>>>
    /\ pres.out =
           Val(MalString("'ValueError('this method always raises')' raised from python"))

\* a write to a property has failed with AttributeError, wrapped
C20_WitnessDot ==
    /\ pres.op = "dot" /\ pres.failed /\ pres.what[2]
    /\ pres.exc.cls = "AttributeError" /\ pres.out.cls = "MalException"

\* the Value the kind of host value v calls for, under the policy of the handle
MarshalledByKind(v, restrictions) ==
    CASE HostCallable(v) -> MalFunctionPython(v, restrictions)
      [] v.t = "str" -> MalString(v.str)
      [] v.t = "bool" -> MalBoolean(v.b)
      [] v.t = "int" -> MalInt(v.n)
      [] v.t = "float" -> MalFloat(v.x)
      [] v.t = "none" -> MalNil
      [] OTHER -> MalPythonObject(v, restrictions)

\* C21: an attribute read through `.` that succeeds gives the host value
\* marshalled by its kind: a callable as a bridged function, a string, a
\* boolean, an integer, a float or None as the String, Boolean, Integer,
\* Float or Nil, anything else as an opaque handle.
C21_MarshalByKind ==
    (pres.op = "dot" /\ ~pres.what[2] /\ pres.out.kind = "val") =>
        pres.out.val = MarshalledByKind(GetAttrHost(hobj, pres.what[1]).val,
                                        handle.restrictions)

\* the root of the chain of frame e
RECURSIVE RootOf(_, _)
RootOf(h, e) == IF h[e].outer = 0 THEN e ELSE RootOf(h, h[e].outer)

\* C22: every frame holds the execution-limit instance of the root of its
\* chain (none when the root has none), however it was made; a limit handed
\* to the constructor of a frame with an outer frame changes nothing: the
\* frame holds what its outer frame holds, and a check through any frame
\* of a chain is the check of the root's instance.
C22_LimitSharedWithRoot ==
    /\ \A e \in 1..Len(envs) : envs[e].limit = envs[RootOf(envs, e)].limit
    /\ (eres.op = "new" /\ eres.st = "ok" /\ eres.loc # 0) =>
           envs[eres.env].limit = envs[eres.loc].limit
    /\ eres.op = "check" =>
           ((eres.st = "MalExecutionLimitError") =
                EnvCheckExecutionLimit(envs, limits, RootOf(envs, eres.env), now))

\* a frame made with the second instance under a chain of two frames whose
\* root holds the first one: it holds the first
C22_Witness ==
    /\ eres.op = "new" /\ eres.st = "ok" /\ eres.limit = 2
    /\ eres.loc = 2 /\ envs[2].outer = 1 /\ envs[1].limit = 1
    /\ envs[eres.env].limit = 1

\* C23: every request restarts the deadline before it evaluates anything,
\* so only the time the request itself has run counts: when the limit error
\* is raised in a request, the clock has advanced by at least time_limit
\* since that request began, whatever time went by in and between the
\* requests before it.
C23_DeadlinePerRequest ==
    /\ (mstack # <<>> \/ mret.kind # "idle") =>
           (eres.op = "reset" /\ limits[envs[1].limit].start_time = eres.loc)
    /\ (<<"raised", "MalExecutionLimitError">> \in mcaught) =>
           now - eres.loc >= limits[envs[1].limit].time_limit

\* the first request was aborted, the second began when more time than the
\* limit had gone by and returned its value
C23_Witness ==
    /\ Len(mresults) = 2
    /\ mresults[1].kind # "val" /\ mresults[1].cls = "MalExecutionLimitError"
    /\ mresults[2].kind = "val"
    /\ eres.loc > limits[envs[1].limit].time_limit

\* What the claim says of one run of (if test conseq alt), given the value
\* of the test, the results so far and the names bound in the global frame.
IfSelected(isFalse, hasAlt, results, expected, bound) ==
    /\ ("c" \in bound) => ~isFalse
    /\ ("a" \in bound) => (isFalse /\ hasAlt)
    /\ Len(results) = 1 =>
        /\ results[1].kind = "val" /\ results[1].val = expected
        /\ ("c" \in bound) <=> ~isFalse
        /\ ("a" \in bound) <=> (isFalse /\ hasAlt)

\* stepA_mal.EVAL
IfSelectsMal ==
    \A hasAlt \in BOOLEAN, test \in IfTestsMal \ {MalSymbol("u")} :
        mprog = IfProgramMal(test, hasAlt) =>
            LET isFalse == test = MalNil \/ test = MalBoolean(FALSE)
            IN  IfSelected(isFalse, hasAlt, mresults,
                           IF ~isFalse THEN MalInt(1) ELSE IF hasAlt THEN MalInt(2) ELSE MalNil,
                           DOMAIN envs[1].data)

\* lispy.py Lispy.eval
IfSelectsLisp ==
    \A hasAlt \in BOOLEAN, test \in IfTestsLisp \ {Symbol("u")} :
        lprog = IfProgramLisp(test, hasAlt) =>
            LET isFalse == IfTestValue(test) = None \/ IfTestValue(test) = PyBool(FALSE)
            IN  IfSelected(isFalse, hasAlt, lresults,
                           IF ~isFalse THEN PyInt(1) ELSE IF hasAlt THEN PyInt(2) ELSE None,
                           DOMAIN lenvs[1].data)

\* C24: `if` takes the alternate branch exactly when the value of the test
\* is nil or boolean false, and gives nil when that branch is absent; every
\* other value of the test, the integer 0, the empty string and the empty
\* list among them, takes the consequent; only the branch taken is evaluated.
C24_IfByNilOrFalse == IfSelectsMal /\ IfSelectsLisp

\* C25: an error other than Syntax and ExecutionLimit raised while the
\* protected expression of (try* A (catch* e B)) is evaluated is
\* intercepted: B is evaluated with e bound to the value the error carries,
\* and the error does not reach the caller.
C25_TryInterceptsEveryKind ==
    \A kind \in TryKinds :
        mprog = RaisingProgram(kind) =>
            LET v == TryCarried[kind]
                expected == << Val(MalList(<<v>>)), Val(v) >>
            IN  \A i \in 1..Len(mresults) : mresults[i] = expected[i]

\* The positions up to i of lprog that define the macro `name`, and the
\* constant of the last of them (0: none).
DefinitionsOf(name, i) ==
    {j \in 1..i : \E k \in 1..3 : lprog[j] = ConstantMacro(name, k)}
LatestDefinition(name, i) ==
    LET js == DefinitionsOf(name, i)
        last == CHOOSE j \in js : \A j2 \in js : j2 <= j
    IN  IF js = {} THEN 0 ELSE lprog[last].l[3].l[3].l[2].n

\* what the call of `name` must expand to as part of form number i, and
\* the value of that expansion: by the definition that was the latest then
ExpansionAt(name, i) ==
    LET k == LatestDefinition(name, i - 1)
    IN  IF k # 0 THEN PyInt(k)
        ELSE IF name = "m" THEN CallM
        ELSE PyList(<<Symbol("if"), PyList(<<Symbol("not"), PyBool(FALSE)>>),
                      PyList(<<Symbol("begin"), PyInt(5)>>), None>>)
ValueAt(name, i) ==
    LET k == LatestDefinition(name, i - 1)
    IN  IF k # 0 THEN PyInt(k) ELSE IF name = "m" THEN None ELSE PyInt(5)

\* the last position up to i that defines the procedure `proc` (0: none)
LastThunk(proc, body, i) ==
    LET js == {j \in 1..i : lprog[j] = DefineThunk(proc, body)}
    IN  IF js = {} THEN 0 ELSE CHOOSE j \in js : \A j2 \in js : j2 <= j

\* the claim for one macro and the procedure whose body calls it
RedefinitionOf(name, proc, call, both) ==
    LET n == Len(lprog)
        k == LatestDefinition(name, n)
        defined == LastThunk(proc, call, Len(lresults))
    IN  \* the table holds the procedure of the latest definition
        /\ k # 0 => macro_table[name] =
                        MacroProcedure(Symbol("args"), PyList(<<Symbol("quote"), PyInt(k)>>))
        \* a form expanded now is expanded by the latest definition
        /\ (n > 0 /\ lprog[n] = both) =>
               /\ pres.st = "ok"
               /\ pres.val = PyList(<<Symbol("list"), PyList(<<Symbol(proc)>>),
                                      ExpansionAt(name, n)>>)
        \* between requests, the body of the procedure is the expansion made
        \* when it was defined
        /\ (lret.kind = "idle" /\ defined # 0) =>
               /\ proc \in DOMAIN lenvs[1].data
               /\ lenvs[1].data[proc].t = "proc"
               /\ lprocs[lenvs[1].data[proc].id].exp = ExpansionAt(name, defined)
        \* and evaluates to that, next to the value of the expansion made now
        /\ \A i \in 1..Len(lresults) :
               LET j == LastThunk(proc, call, i)
               IN  (lprog[i] = both /\ j # 0 /\ LatestDefinition(name, j - 1) # 0
                                    /\ LatestDefinition(name, i - 1) # 0) =>
                       lresults[i] = LVal(PyList(<<ValueAt(name, j), ValueAt(name, i)>>))

\* C26: a top-level macro definition for a name that is a macro already,
\* the bootstrap macros included, replaces the earlier definition: every
\* form expanded after it uses the new macro, and the forms expanded before
\* it (the body of a procedure defined earlier) keep their expansion.
C26_MacroRedefinition ==
    /\ RedefinitionOf("m", "f", CallM, BothM)
    /\ RedefinitionOf("unless", "g", CallUnless, BothUnless)

\* m was defined, f defined, m redefined: (list (f) (m)) gives (1 2)
C26_Witness ==
    /\ lprog = <<ConstantMacro("m", 1), DefineThunk("f", CallM), ConstantMacro("m", 2), BothM>>
    /\ Len(lresults) = 4
    /\ lresults[4] = LVal(PyList(<<PyInt(1), PyInt(2)>>))

\* C27: when load(expressions, limit) has finished, by returning or by
\* raising (LimitError included), no limit is installed on the interpreter:
\* in any sequence of requests, a load or eval made without a limit is
\* never aborted by the limit of an earlier call.
C27_NoLimitLeftInstalled ==
    \* between requests no limit is installed
    /\ (lstack = <<>> /\ lret.kind = "idle") => llimit = 0
    \* the limit installed during a request is the one its load was given
    /\ llimit # 0 => llimit = Len(limits)
    \* a request without a limit does not end with LimitError
    /\ llimit = 0 => ~(lret.kind = "exc" /\ lret.cls = "LimitError")

\* a load was aborted by its limit; a request without a limit made
\* afterwards, with the deadline of that limit gone by, returns its value
C27_Witness ==
    /\ \E i \in 1..Len(lresults) : lresults[i] = LExc("LimitError")
    /\ lstack = <<>> /\ lret.kind = "val" /\ llimit = 0
    /\ limits # <<>>
    /\ now > limits[Len(limits)].start_time + limits[Len(limits)].time_limit

\* the results of the requests of the account program made so far
AccountResults ==
    \A shadow \in BOOLEAN, amt \in {1, 10} :
        lprog = AccountProgram(shadow, amt) =>
            LET expected ==
                    (IF shadow THEN <<LVal(None)>> ELSE <<>>)
                    \o << LVal(None), LVal(None),
                          LVal(PyInt(100)), LVal(PyInt(100 + amt)), LVal(PyInt(100 + 2 * amt)),
                          IF shadow THEN LVal(PyInt(5)) ELSE LExc("LookupError"),
                          LExc("LookupError"), LExc("LookupError"),
                          LExc("LookupError") >>
            IN  \A i \in 1..Len(lresults) : lresults[i] = expected[i]

\* the value of the expression of a set! returns into the set!
SetReturns ==
    /\ lstack # <<>> /\ lret.kind = "val"
    /\ lstack[Len(lstack)].kind = "eval" /\ lstack[Len(lstack)].pc = "set"

\* what the step that follows must do
SetEffect ==
    LET f == lstack[Len(lstack)]
        var == f.x.l[2].s
        chain == ChainOf(lenvs, f.env)
        binding == {i \in 1..Len(chain) : var \in DOMAIN lenvs[chain[i]].data}
    IN  IF binding = {}
        THEN lenvs' = lenvs /\ lret' = LExc("LookupError")
        ELSE \E i \in binding :
                \* no frame further in binds the variable
                /\ \A j \in binding : i <= j
                /\ lenvs' = [lenvs EXCEPT ![chain[i]].data[var] = lret.val]

\* C28: set! changes the binding of the variable in the innermost frame of
\* the current chain that binds it and leaves every other frame and binding
\* as it was, so what a closure has captured lasts from call to call (an
\* account gives 100, 110, 120 for the deposits 0, 10, 10); set! of a
\* variable that no frame binds fails with a lookup error and makes no
\* binding.
C28_SetInnermost == []AccountResults /\ [][SetReturns => SetEffect]_vars

\* the account has been called three times beside a global variable of the
\* name of its balance, which is as it was
C28_Witness ==
    /\ lprog = AccountProgram(TRUE, 10)
    /\ Len(lresults) = 7
    /\ lresults[6] = LVal(PyInt(120)) /\ lresults[7] = LVal(PyInt(5))
    /\ \E e \in 2..Len(lenvs) : "bal" \in DOMAIN lenvs[e].data /\ lenvs[e].data["bal"] = PyInt(120)

\* the handles in a value: the value itself or the elements of a list
HandlesIn(v) ==
    IF v.t \in {"pyobj", "pyfn"} THEN {v}
    ELSE IF v.t = "list"
    THEN {v.l[i] : i \in {j \in 1..Len(v.l) : v.l[j].t \in {"pyobj", "pyfn"}}}
    ELSE {}

\* what a read, a call or a conversion has given carries the policy of the
\* handle it was obtained through
PolicyCarried ==
    (pres.op \in {"dot", "call", "returned", "converted"} /\ pres.out.kind = "val") =>
        \A v \in HandlesIn(pres.out.val) : v.restrictions = handle.restrictions

\* a read that has given a value named an attribute the policy allows for
\* the type of the object read from
OnlyAllowedReached ==
    (/\ pres.op = "dot" /\ ~pres.what[2] /\ pres.out.kind = "val"
     /\ handle.restrictions.some) =>
        /\ handle.type \in DOMAIN handle.restrictions.map
        /\ pres.what[1] \in handle.restrictions.map[handle.type]

\* C29: every value obtained through a handle that carries a restriction
\* policy carries the same policy (the result of an attribute read, of the
\* call of a bridged callable obtained from it, the elements of a host list
\* converted from it), so that no chain of reads and calls that begins at a
\* restricted injected object reaches an attribute the policy does not
\* allow for the type of the object it is read from.
C29_PolicyFollowsValues == PolicyCarried /\ OnlyAllowedReached

\* the outcomes of the requests of the alias program made so far
AliasResults ==
    \A alias \in BOOLEAN :
        mprog = AliasProgram(alias) =>
            LET f == MalFunction(Len(CoreNames) + 1)
                m == IF alias THEN f ELSE MalFunction(Len(CoreNames) + 2)
                unbound == MalUnknownSymbolException("u")
                expanded == Val(MalSymbol("u"))
                expected == << Val(f), unbound, Val(m),
                               IF alias THEN expanded ELSE unbound,
                               expanded, Val(m), expanded, Val(m), expanded >>
            IN  /\ \A i \in 1..Len(mresults) : mresults[i] = expected[i]
                \* once m is defined, it is bound to the flagged object; under
                \* the alias that is the object f is bound to
                /\ Len(mresults) >= 3 =>
                       /\ envs[1].data["m"] = m /\ envs[1].data["f"] = f
                       /\ mfns[m.id].is_macro
                       /\ mfns[f.id].is_macro = alias

\* C30: defmacro! sets the macro flag on the function value its expression
\* evaluates to, not on a copy: when the function is bound under another
\* name already ((def! f (fn* ...)) followed by (defmacro! m f)), calls
\* through the other name are macro calls from then on as well; the flag of
\* a function is never cleared afterwards.
C30_MacroFlagOnObject ==
    /\ []AliasResults
    /\ [][\A id \in 1..Len(mfns) : mfns[id].is_macro => mfns'[id].is_macro]_vars

\* f was called as a function, then made a macro under the name m, and the
\* call through f was expanded
C30_Witness ==
    /\ mprog = AliasProgram(TRUE) /\ Len(mresults) = 9
    /\ mresults[2] = MalUnknownSymbolException("u")
    /\ mresults[4] = Val(MalSymbol("u"))
    /\ envs[1].data["f"] = envs[1].data["m"]

====
